---------------------------- MODULE Spec2Model ----------------------------
(***************************************************************************)
(* Supercell construction and indexing engine of tbplas                    *)
(* (tbplas/builder/super.py: classes OrbitalSet and SuperCell).            *)
(*                                                                         *)
(* An object is a record `self' of the attributes the classes keep; every  *)
(* method is an operator from (self, arguments) to the object after the    *)
(* call together with the value returned or the exception raised.  The     *)
(* actions apply the methods to the state variables.                       *)
(*                                                                         *)
(* Conventions: indices are 0-based as in the source, sequences are        *)
(* 1-based, so element i of an array a is a[i + 1].  None and the empty    *)
(* array are both << >>.  A complex number is << re, im >>.                *)
(***************************************************************************)
EXTENDS Integers, Sequences, FiniteSets, TLC

VARIABLES
    phase,          \* "new": before the constructor ran | "ready" | "failed"
    prim_cell,      \* the primitive cell handed to the constructor
    dim,            \* self.dim
    pbc,            \* self.pbc (0 / 1 per axis)
    vacancy_list,   \* self.vacancy_list
    hash_dict,      \* self.hash_dict['vac']
    vac_id_pc,      \* self.vac_id_pc
    vac_id_sc,      \* self.vac_id_sc
    orb_id_pc,      \* self.orb_id_pc
    is_locked,      \* self.is_locked (Lockable)
    hop_modifier,   \* self.hop_modifier
    orb_pos_modifier, \* self.orb_pos_modifier ("None" or the name of a function)
    last            \* the last call: [op, arg, err, ret]

vars == << phase, prim_cell, dim, pbc, vacancy_list, hash_dict, vac_id_pc,
           vac_id_sc, orb_id_pc, is_locked, hop_modifier, orb_pos_modifier,
           last >>

(***************************************************************************)
(* Bounds of the model.                                                    *)
(***************************************************************************)
MaxDim == 4     \* largest supercell dimension along axis a
MaxHop == 2     \* most hopping terms of a primitive cell
MaxVac == 2     \* most entries of vacancy_list
MaxMod == 2     \* most entries of the hopping modifier

(***************************************************************************)
(* Small helpers.                                                          *)
(***************************************************************************)
NoErr == [kind |-> "none"]

Conj(v) == << v[1], -v[2] >>

AbsSq(v) == v[1] * v[1] + v[2] * v[2]

Abs(x) == IF x < 0 THEN -x ELSE x

MaxOfSet(S) == CHOOSE x \in S : \A y \in S : y <= x

MinOfSet(S) == CHOOSE x \in S : \A y \in S : x <= y

Contains(seq, x) == \E k \in 1..Len(seq) : seq[k] = x

\* the element of a one-element set
Only(S) == CHOOSE x \in S : TRUE

\* One list of records as the three parallel arrays the builder returns.
AsArrays(terms) ==
    [hop_i |-> [k \in 1..Len(terms) |-> terms[k].i],
     hop_j |-> [k \in 1..Len(terms) |-> terms[k].j],
     hop_v |-> [k \in 1..Len(terms) |-> terms[k].v]]

EmptyHop == [hop_i |-> << >>, hop_j |-> << >>, hop_v |-> << >>]

\* np.append on each of the three arrays
AppendArrays(h1, h2) ==
    [hop_i |-> h1.hop_i \o h2.hop_i,
     hop_j |-> h1.hop_j \o h2.hop_j,
     hop_v |-> h1.hop_v \o h2.hop_v]

\* The stored terms as an unordered collection: how often each
\* (hop_i, hop_j, hop_v) triple occurs.
TermAt(h, k) == << h.hop_i[k], h.hop_j[k], h.hop_v[k] >>

TermCount(h, t) == Cardinality({k \in 1..Len(h.hop_i) : TermAt(h, k) = t})

SameTerms(h1, h2) ==
    /\ Len(h1.hop_i) = Len(h2.hop_i)
    /\ \A k \in 1..Len(h1.hop_i) :
          TermCount(h1, TermAt(h1, k)) = TermCount(h2, TermAt(h1, k))

(***************************************************************************)
(* The compiled core (tbplas/builder/core), which super.py calls.          *)
(***************************************************************************)
\* flat index of a primitive-cell index, vacancies not considered:
\* row-major over (a, b, c, orbital), orbital fastest
_id_pc2sc(d, nopc, id_pc) ==
    ((id_pc[1] * d[2] + id_pc[2]) * d[3] + id_pc[3]) * nopc + id_pc[4]

\* the primitive-cell index of flat index k (the loop nest ia, ib, ic, io)
_id_sc2pc(d, nopc, k) ==
    << k \div (nopc * d[3] * d[2]),
       (k \div (nopc * d[3])) % d[2],
       (k \div nopc) % d[3],
       k % nopc >>

\* binary search of x in the increasing array vac[lo..hi]: -1 if x is in
\* it, else the number of entries below x
RECURSIVE _bisect(_, _, _, _)
_bisect(vac, x, lo, hi) ==
    IF lo > hi THEN lo - 1
    ELSE LET mid == (lo + hi) \div 2
         IN  IF vac[mid] = x THEN -1
             ELSE IF vac[mid] < x THEN _bisect(vac, x, mid + 1, hi)
             ELSE _bisect(vac, x, lo, mid - 1)

\* compacted index of id_pc, -1 for a vacancy
_id_pc2sc_vac(d, nopc, id_pc, vac_sc) ==
    LET id_sc == _id_pc2sc(d, nopc, id_pc)
        offset == _bisect(vac_sc, id_sc, 1, Len(vac_sc))
    IN  IF offset = -1 THEN -1 ELSE id_sc - offset

id_pc2sc(d, nopc, id_pc, vac_sc) ==
    IF vac_sc = << >> THEN _id_pc2sc(d, nopc, id_pc)
    ELSE _id_pc2sc_vac(d, nopc, id_pc, vac_sc)

build_vac_id_sc(d, nopc, vac_pc) ==
    [k \in 1..Len(vac_pc) |-> _id_pc2sc(d, nopc, vac_pc[k])]

\* every primitive-cell index in flat order, the vacancies skipped
build_orb_id_pc(d, nopc, vac_pc) ==
    LET total == nopc * d[1] * d[2] * d[3]
        all == [k \in 1..total |-> _id_sc2pc(d, nopc, k - 1)]
        skip(vac_sc) ==
            LET live(id_pc) == id_pc2sc(d, nopc, id_pc, vac_sc) # -1
            IN  SelectSeq(all, live)
    IN  Only({skip(vac_sc) : vac_sc \in {build_vac_id_sc(d, nopc, vac_pc)}})

\* cell index ji along an axis of ni cells: wrapped if the axis is
\* periodic, -1 (no neighbour) if it is not and ji leaves the supercell
_wrap_pbc(ji, ni, pbc_i) ==
    IF pbc_i = 0
    THEN IF ji < 0 \/ ji >= ni THEN -1 ELSE ji
    ELSE ji % ni

\* The general algorithm: for every orbital and every primitive hopping
\* term that starts from its orbital kind, the term to the destination
\* orbital unless that falls off a free boundary or is a vacancy.
build_hop(pc_hop_ind, pc_hop_eng, d, p, nopc, orb_pc, vac_sc) ==
    LET num_hop_pc == Len(pc_hop_ind)
        num_orb == Len(orb_pc)
        cand(k) ==
            LET id_sc_i == (k - 1) \div num_hop_pc
                ih == ((k - 1) % num_hop_pc) + 1
                id_pc_i == orb_pc[id_sc_i + 1]
                t == pc_hop_ind[ih]
                ja == _wrap_pbc(id_pc_i[1] + t[1], d[1], p[1])
                jb == _wrap_pbc(id_pc_i[2] + t[2], d[2], p[2])
                jc == _wrap_pbc(id_pc_i[3] + t[3], d[3], p[3])
                id_sc_j == IF ja = -1 \/ jb = -1 \/ jc = -1 THEN -1
                           ELSE id_pc2sc(d, nopc, << ja, jb, jc, t[5] >>, vac_sc)
            IN  [i |-> id_sc_i, j |-> id_sc_j, v |-> pc_hop_eng[ih],
                 ok |-> id_pc_i[4] = t[4] /\ id_sc_j # -1]
        all == [k \in 1..(num_orb * num_hop_pc) |-> cand(k)]
        kept(c) == c.ok
    IN  IF num_hop_pc = 0 THEN EmptyHop ELSE AsArrays(SelectSeq(all, kept))

\* a primitive hopping term is periodic if it does not leave the cell
\* along any free axis
_is_pbc_hop(t, p) == \A i \in 1..3 : p[i] = 1 \/ t[i] = 0

split_pc_hop(pc_hop_ind, pc_hop_eng, p) ==
    LET idx == [k \in 1..Len(pc_hop_ind) |-> k]
        is_pbc(k) == _is_pbc_hop(pc_hop_ind[k], p)
        is_free(k) == ~_is_pbc_hop(pc_hop_ind[k], p)
        k_pbc == SelectSeq(idx, is_pbc)
        k_free == SelectSeq(idx, is_free)
    IN  [ind_pbc |-> [k \in 1..Len(k_pbc) |-> pc_hop_ind[k_pbc[k]]],
         eng_pbc |-> [k \in 1..Len(k_pbc) |-> pc_hop_eng[k_pbc[k]]],
         ind_free |-> [k \in 1..Len(k_free) |-> pc_hop_ind[k_free[k]]],
         eng_free |-> [k \in 1..Len(k_free) |-> pc_hop_eng[k_free[k]]]]

\* The periodic part in closed form: every cell carries every periodic
\* term, so there are (number of cells) * (number of terms) of them.
build_hop_pbc(ind_pbc, eng_pbc, d, p, nopc) ==
    LET num_hop_pbc == Len(ind_pbc)
        num_cell == d[1] * d[2] * d[3]
        term(k) ==
            LET cell == (k - 1) \div num_hop_pbc
                ih == ((k - 1) % num_hop_pbc) + 1
                t == ind_pbc[ih]
                ia == cell \div (d[3] * d[2])
                ib == (cell \div d[3]) % d[2]
                ic == cell % d[3]
                ja == _wrap_pbc(ia + t[1], d[1], p[1])
                jb == _wrap_pbc(ib + t[2], d[2], p[2])
                jc == _wrap_pbc(ic + t[3], d[3], p[3])
            IN  [i |-> _id_pc2sc(d, nopc, << ia, ib, ic, t[4] >>),
                 j |-> _id_pc2sc(d, nopc, << ja, jb, jc, t[5] >>),
                 v |-> eng_pbc[ih]]
    IN  IF num_hop_pbc = 0 THEN EmptyHop
        ELSE AsArrays([k \in 1..(num_cell * num_hop_pbc) |-> term(k)])

\* the first stored term between bra and ket in either direction:
\* << id_same, id_conj >>, -1 for none
find_equiv_hopping(hop_i, hop_j, bra, ket) ==
    LET same(k) == hop_i[k] = bra /\ hop_j[k] = ket
        conj(k) == hop_i[k] = ket /\ hop_j[k] = bra
        hits == {k \in 1..Len(hop_i) : same(k) \/ conj(k)}
    IN  IF hits = {} THEN << -1, -1 >>
        ELSE LET k == MinOfSet(hits)
             IN  IF same(k) THEN << k - 1, -1 >> ELSE << -1, k - 1 >>

\* the primitive-cell indices of the orbitals that are an endpoint of no
\* hopping term
get_orb_id_trim(orb_pc, hop_i, hop_j) ==
    LET idx == [k \in 1..Len(orb_pc) |-> k - 1]
        dangling(i) == ~Contains(hop_i, i) /\ ~Contains(hop_j, i)
        id_sc_trim == SelectSeq(idx, dangling)
    IN  [k \in 1..Len(id_sc_trim) |-> orb_pc[id_sc_trim[k] + 1]]

(***************************************************************************)
(* Collaborators from tbplas/builder/base: check_rn, check_pbc and the     *)
(* IntraHopping container.                                                 *)
(***************************************************************************)
\* a cell index or dimension of 2 or 3 components, completed to 3
check_rn(rn, complete_item) ==
    IF Len(rn) = 3 THEN [rn |-> rn, legal |-> TRUE]
    ELSE IF Len(rn) = 2
    THEN [rn |-> << rn[1], rn[2], complete_item >>, legal |-> TRUE]
    ELSE [rn |-> rn, legal |-> FALSE]

check_pbc(p, complete_item) ==
    IF Len(p) = 3 THEN [pbc |-> p, legal |-> TRUE]
    ELSE IF Len(p) = 2
    THEN [pbc |-> << p[1], p[2], complete_item >>, legal |-> TRUE]
    ELSE [pbc |-> p, legal |-> FALSE]

\* IntraHopping.add_hopping: one energy per key (rn, orb_i, orb_j), a new
\* key goes to the end
IntraHopping_add_hopping(mod, rn, orb_i, orb_j, energy) ==
    LET hit == {k \in 1..Len(mod) :
                   mod[k].rn = rn /\ mod[k].bra = orb_i /\ mod[k].ket = orb_j}
    IN  IF hit = {}
        THEN Append(mod, [rn |-> rn, bra |-> orb_i, ket |-> orb_j, eng |-> energy])
        ELSE [k \in 1..Len(mod) |->
                 IF k \in hit THEN [mod[k] EXCEPT !.eng = energy] ELSE mod[k]]

\* IntraHopping.to_array: rows (rn, bra, ket) and the energies
IntraHopping_to_array(mod) ==
    [hop_ind |-> [k \in 1..Len(mod) |->
                     << mod[k].rn[1], mod[k].rn[2], mod[k].rn[3],
                        mod[k].bra, mod[k].ket >>],
     hop_eng |-> [k \in 1..Len(mod) |-> mod[k].eng]]

\* IntraHopping.remove_orbitals: drop the entries that refer to one of the
\* orbitals
IntraHopping_remove_orbitals(mod, indices) ==
    LET keep(e) == ~Contains(indices, e.bra) /\ ~Contains(indices, e.ket)
    IN  SelectSeq(mod, keep)

(***************************************************************************)
(* class OrbitalSet                                                        *)
(***************************************************************************)
num_orb_pc(self) == self.prim_cell.num_orb

num_orb_sc(self) ==
    num_orb_pc(self) * self.dim[1] * self.dim[2] * self.dim[3]
        - Len(self.vacancy_list)

\* hash(tuple(self.vacancy_list)): the tuple stands for its hash
_get_hash(self) == self.vacancy_list

_update_hash(self) ==
    LET new_hash == _get_hash(self)
    IN  IF self.hash_dict # new_hash
        THEN [self |-> [self EXCEPT !.hash_dict = new_hash], status |-> TRUE]
        ELSE [self |-> self, status |-> FALSE]

\* mutant of _check_id_pc: the orbital is checked before the cell indices
_check_id_pc_orbital_first(self, id_pc) ==
    IF Len(id_pc) # 4 THEN [kind |-> "IDPCLenError", id_pc |-> id_pc]
    ELSE LET bad == {i \in 0..2 : id_pc[i + 1] \notin 0..(self.dim[i + 1] - 1)}
         IN  IF id_pc[4] \notin 0..(num_orb_pc(self) - 1)
             THEN [kind |-> "IDPCIndexError", i_dim |-> 3, id_pc |-> id_pc]
             ELSE IF bad # {}
             THEN [kind |-> "IDPCIndexError", i_dim |-> MinOfSet(bad), id_pc |-> id_pc]
             ELSE NoErr

_check_id_pc(self, id_pc) ==
    IF Len(id_pc) # 4 THEN [kind |-> "IDPCLenError", id_pc |-> id_pc]
    ELSE LET bad == {i \in 0..2 : id_pc[i + 1] \notin 0..(self.dim[i + 1] - 1)}
         IN  IF bad # {}
             THEN [kind |-> "IDPCIndexError", i_dim |-> MinOfSet(bad), id_pc |-> id_pc]
             ELSE IF id_pc[4] \notin 0..(num_orb_pc(self) - 1)
             THEN [kind |-> "IDPCIndexError", i_dim |-> 3, id_pc |-> id_pc]
             ELSE NoErr

\* mutant of argsort: the order as given
argsort_as_given(a) == [k \in 1..Len(a) |-> k]

\* np.argsort of an array of distinct numbers
argsort(a) ==
    [k \in 1..Len(a) |->
        CHOOSE i \in 1..Len(a) :
            Cardinality({j \in 1..Len(a) :
                            a[j] < a[i] \/ (a[j] = a[i] /\ j < i)}) = k - 1]

\* "If vacancy list is not [], update arrays as usual" of sync_array:
\* the arrays sorted by supercell index, orb_id_pc rebuilt if `rebuild'
_sync_sorted(s, rebuild) ==
    LET sorted(vac_sc, sorted_idx) ==
            LET new_vac_pc == [k \in 1..Len(sorted_idx) |->
                                  s.vacancy_list[sorted_idx[k]]]
                new_vac_sc == [k \in 1..Len(sorted_idx) |-> vac_sc[sorted_idx[k]]]
            IN  [s EXCEPT !.vac_id_pc = new_vac_pc,
                          !.vac_id_sc = new_vac_sc,
                          !.orb_id_pc =
                              IF rebuild
                              THEN build_orb_id_pc(s.dim, num_orb_pc(s), new_vac_pc)
                              ELSE @]
    IN  Only({sorted(vac_sc, argsort(vac_sc)) :
              vac_sc \in {build_vac_id_sc(s.dim, num_orb_pc(s), s.vacancy_list)}})

\* mutant of sync_array: orb_id_pc is not rebuilt
sync_array_keeps_orb_id_pc(self, force_sync) ==
    LET body(u) ==
            IF force_sync \/ u.status
            THEN IF Len(u.self.vacancy_list) # 0
                 THEN _sync_sorted(u.self, FALSE)
                 ELSE [u.self EXCEPT !.vac_id_pc = << >>, !.vac_id_sc = << >>]
            ELSE u.self
    IN  Only({body(u) : u \in {_update_hash(self)}})

sync_array(self, force_sync) ==
    LET body(u) ==
            IF force_sync \/ u.status
            THEN IF Len(u.self.vacancy_list) # 0
                 THEN _sync_sorted(u.self, TRUE)
                 ELSE [u.self EXCEPT
                          !.vac_id_pc = << >>,
                          !.vac_id_sc = << >>,
                          !.orb_id_pc = build_orb_id_pc(u.self.dim,
                                                        num_orb_pc(u.self), << >>)]
            ELSE u.self
    IN  Only({body(u) : u \in {_update_hash(self)}})

\* the loop of add_vacancies from element k on: it stops at the first
\* element that is rejected, the elements before it stay added
\* mutant of the loop of add_vacancies: a vacancy that is already in the
\* list is appended again
RECURSIVE _add_vacancies_loop_keeps_dup(_, _, _)
_add_vacancies_loop_keeps_dup(self, vacancies, k) ==
    IF k > Len(vacancies) THEN [self |-> self, err |-> NoErr]
    ELSE LET vacancy == vacancies[k]
             chk == _check_id_pc(self, vacancy)
         IN  IF chk.kind = "IDPCLenError"
             THEN [self |-> self,
                   err |-> [kind |-> "VacIDPCLenError", id_pc |-> chk.id_pc]]
             ELSE IF chk.kind = "IDPCIndexError"
             THEN [self |-> self,
                   err |-> [kind |-> "VacIDPCIndexError", i_dim |-> chk.i_dim,
                            id_pc |-> chk.id_pc]]
             ELSE Only({_add_vacancies_loop_keeps_dup(s, vacancies, k + 1) :
                        s \in {[self EXCEPT !.vacancy_list = Append(@, vacancy)]}})

RECURSIVE _add_vacancies_loop(_, _, _)
_add_vacancies_loop(self, vacancies, k) ==
    IF k > Len(vacancies) THEN [self |-> self, err |-> NoErr]
    ELSE LET vacancy == vacancies[k]
             chk == _check_id_pc(self, vacancy)
         IN  IF chk.kind = "IDPCLenError"
             THEN [self |-> self,
                   err |-> [kind |-> "VacIDPCLenError", id_pc |-> chk.id_pc]]
             ELSE IF chk.kind = "IDPCIndexError"
             THEN [self |-> self,
                   err |-> [kind |-> "VacIDPCIndexError", i_dim |-> chk.i_dim,
                            id_pc |-> chk.id_pc]]
             ELSE IF ~Contains(self.vacancy_list, vacancy)
             THEN Only({_add_vacancies_loop(s, vacancies, k + 1) :
                        s \in {[self EXCEPT !.vacancy_list = Append(@, vacancy)]}})
             ELSE _add_vacancies_loop(self, vacancies, k + 1)

add_vacancies(self, vacancies, do_sync) ==
    IF self.is_locked THEN [self |-> self, err |-> [kind |-> "SCLockError"]]
    ELSE LET body(r) ==
                 IF r.err.kind # "none" THEN r
                 ELSE IF do_sync
                 THEN [self |-> sync_array(r.self, FALSE), err |-> NoErr]
                 ELSE r
         IN  Only({body(r) : r \in {_add_vacancies_loop(self, vacancies, 1)}})

add_vacancy(self, vacancy, do_sync) ==
    add_vacancies(self, << vacancy >>, do_sync)

\* mutant of set_vacancies: the list is not emptied first
set_vacancies_keeps_list(self, vacancies, do_sync) ==
    add_vacancies(self, vacancies, do_sync)

set_vacancies(self, vacancies, do_sync) ==
    add_vacancies([self EXCEPT !.vacancy_list = << >>], vacancies, do_sync)

\* mutant of orb_id_sc2pc: the index taken as one-based
orb_id_sc2pc_one_based(self, id_sc) ==
    LET body(s) ==
            LET n == Len(s.orb_id_pc)
            IN  IF id_sc >= n \/ id_sc < -n
                THEN [self |-> s,
                      err |-> [kind |-> "IDSCIndexError", id_sc |-> id_sc],
                      ret |-> << >>]
                ELSE [self |-> s, err |-> NoErr,
                      ret |-> s.orb_id_pc[((id_sc + n - 1) % n) + 1]]
    IN  Only({body(s) : s \in {sync_array(self, FALSE)}})

\* self.orb_id_pc[id_sc]: numpy counts a negative index from the end
orb_id_sc2pc(self, id_sc) ==
    LET body(s) ==
            LET n == Len(s.orb_id_pc)
            IN  IF id_sc >= n \/ id_sc < -n
                THEN [self |-> s,
                      err |-> [kind |-> "IDSCIndexError", id_sc |-> id_sc],
                      ret |-> << >>]
                ELSE [self |-> s, err |-> NoErr,
                      ret |-> s.orb_id_pc[(IF id_sc < 0 THEN id_sc + n
                                           ELSE id_sc) + 1]]
    IN  Only({body(s) : s \in {sync_array(self, FALSE)}})

\* status of core.check_id_sc_array: the first element outside
\* [0, num_orb_sc)
check_id_sc_array(n_orb_sc, id_sc_array) ==
    LET bad == {k \in 1..Len(id_sc_array) :
                   ~(0 <= id_sc_array[k] /\ id_sc_array[k] < n_orb_sc)}
    IN  IF bad = {} THEN << 0, 0 >> ELSE << -1, MinOfSet(bad) - 1 >>

\* core.id_sc2pc_array: the rows of orb_id_pc
id_sc2pc_array(orb_id_pc_arr, id_sc_array) ==
    [k \in 1..Len(id_sc_array) |-> orb_id_pc_arr[id_sc_array[k] + 1]]

orb_id_sc2pc_array(self, id_sc_array) ==
    LET checked(s, status) ==
            IF status[1] = -1
            THEN [self |-> s,
                  err |-> [kind |-> "IDSCIndexError",
                           id_sc |-> id_sc_array[status[2] + 1]],
                  ret |-> << >>]
            ELSE [self |-> s, err |-> NoErr,
                  ret |-> id_sc2pc_array(s.orb_id_pc, id_sc_array)]
        body(s) ==
            Only({checked(s, status) :
                  status \in {check_id_sc_array(num_orb_sc(s), id_sc_array)}})
    IN  Only({body(s) : s \in {sync_array(self, FALSE)}})

\* mutant of orb_id_pc2sc: the vacancies below id_pc are not subtracted
orb_id_pc2sc_flat(self, id_pc) ==
    LET body(s) ==
            LET chk == _check_id_pc(s, id_pc)
            IN  IF chk.kind # "none" THEN [self |-> s, err |-> chk, ret |-> -1]
                ELSE [self |-> s, err |-> NoErr,
                      ret |-> _id_pc2sc(s.dim, num_orb_pc(s), id_pc)]
    IN  Only({body(s) : s \in {sync_array(self, FALSE)}})

\* mutant of orb_id_pc2sc: sync_array() is not called first
orb_id_pc2sc_no_sync(self, id_pc) ==
    LET chk == _check_id_pc(self, id_pc)
        orb_id_sc == id_pc2sc(self.dim, num_orb_pc(self), id_pc, self.vac_id_sc)
    IN  IF chk.kind # "none" THEN [self |-> self, err |-> chk, ret |-> -1]
        ELSE IF orb_id_sc = -1
        THEN [self |-> self,
              err |-> [kind |-> "IDPCVacError", id_pc |-> id_pc],
              ret |-> -1]
        ELSE [self |-> self, err |-> NoErr, ret |-> orb_id_sc]

orb_id_pc2sc(self, id_pc) ==
    LET body(s) ==
            LET chk == _check_id_pc(s, id_pc)
                orb_id_sc == id_pc2sc(s.dim, num_orb_pc(s), id_pc, s.vac_id_sc)
            IN  IF chk.kind # "none" THEN [self |-> s, err |-> chk, ret |-> -1]
                ELSE IF orb_id_sc = -1
                THEN [self |-> s,
                      err |-> [kind |-> "IDPCVacError", id_pc |-> id_pc],
                      ret |-> -1]
                ELSE [self |-> s, err |-> NoErr, ret |-> orb_id_sc]
    IN  Only({body(s) : s \in {sync_array(self, FALSE)}})

\* status of core.check_id_pc_array: the first element that is out of
\* range (-2) or a vacancy (-1)
check_id_pc_array(self, id_pc_array) ==
    LET bad == {k \in 1..Len(id_pc_array) :
                   \/ _check_id_pc(self, id_pc_array[k]).kind # "none"
                   \/ Contains(self.vac_id_pc, id_pc_array[k])}
    IN  IF bad = {} THEN << 0, 0, 0 >>
        ELSE LET k == MinOfSet(bad)
                 chk == _check_id_pc(self, id_pc_array[k])
             IN  IF chk.kind # "none" THEN << -2, k - 1, chk.i_dim >>
                 ELSE << -1, k - 1, 0 >>

orb_id_pc2sc_array(self, id_pc_array) ==
    LET checked(s, status) ==
            IF status[1] = -2
            THEN [self |-> s,
                  err |-> [kind |-> "IDPCIndexError", i_dim |-> status[3],
                           id_pc |-> id_pc_array[status[2] + 1]],
                  ret |-> << >>]
            ELSE IF status[1] = -1
            THEN [self |-> s,
                  err |-> [kind |-> "IDPCVacError",
                           id_pc |-> id_pc_array[status[2] + 1]],
                  ret |-> << >>]
            ELSE [self |-> s, err |-> NoErr,
                  ret |-> [k \in 1..Len(id_pc_array) |->
                              id_pc2sc(s.dim, num_orb_pc(s),
                                       id_pc_array[k], s.vac_id_sc)]]
        body(s) ==
            IF Len(id_pc_array) = 0
            THEN [self |-> s, err |-> NoErr, ret |-> << >>]
            ELSE IF Len(id_pc_array[1]) # 4
            THEN [self |-> s,
                  err |-> [kind |-> "IDPCLenError", id_pc |-> id_pc_array[1]],
                  ret |-> << >>]
            ELSE Only({checked(s, status) :
                       status \in {check_id_pc_array(s, id_pc_array)}})
    IN  Only({body(s) : s \in {sync_array(self, FALSE)}})

\* "Check and set dimension" of OrbitalSet.__init__: the axes whose
\* dimension is below the furthest cell the hopping terms reach
_dim_min(pc, i) ==
    LET col == {pc.hop_ind[k][i + 1] : k \in 1..Len(pc.hop_ind)}
        rn_min == MinOfSet(col)
        rn_max == MaxOfSet(col)
    IN  MaxOfSet({Abs(rn_min), Abs(rn_max)})

\* mutant of _dim_too_small: <= where the source has <
_dim_too_small_strict(pc, d) == {i \in 0..2 : d[i + 1] <= _dim_min(pc, i)}

_dim_too_small(pc, d) == {i \in 0..2 : d[i + 1] < _dim_min(pc, i)}

\* "Check and set periodic boundary condition": the int32 array
_pbc_array(p) == [i \in 1..3 |-> IF p[i] THEN 1 ELSE 0]

\* OrbitalSet.__init__.  The primitive cell is synchronized and locked
\* first; its hopping table is not empty.
OrbitalSet_init(pc, dim_arg, pbc_arg, vacancies) ==
    LET pc1 == [pc EXCEPT !.is_locked = TRUE]
        cd == check_rn(dim_arg, 1)
        small == IF cd.legal THEN _dim_too_small(pc1, cd.rn) ELSE {}
        cp == check_pbc(pbc_arg, FALSE)
        self0 == [prim_cell |-> pc1,
                  dim |-> cd.rn,
                  pbc |-> _pbc_array(cp.pbc),
                  vacancy_list |-> << >>,
                  hash_dict |-> << >>,
                  vac_id_pc |-> << >>,
                  vac_id_sc |-> << >>,
                  orb_id_pc |-> build_orb_id_pc(cd.rn, pc1.num_orb, << >>),
                  is_locked |-> FALSE,
                  hop_modifier |-> << >>,
                  orb_pos_modifier |-> "None"]
    IN  IF ~cd.legal
        THEN [ok |-> FALSE, prim_cell |-> pc1,
              err |-> [kind |-> "SCDimLenError", dim |-> dim_arg]]
        ELSE IF small # {}
        THEN [ok |-> FALSE, prim_cell |-> pc1,
              err |-> [kind |-> "SCDimSizeError", i_dim |-> MinOfSet(small),
                       dim_min |-> _dim_min(pc1, MinOfSet(small))]]
        ELSE IF ~cp.legal
        THEN [ok |-> FALSE, prim_cell |-> pc1,
              err |-> [kind |-> "PBCLenError", pbc |-> pbc_arg]]
        ELSE LET added(r) ==
                     IF r.err.kind # "none"
                     THEN [ok |-> FALSE, prim_cell |-> pc1, err |-> r.err]
                     ELSE [ok |-> TRUE, prim_cell |-> pc1, err |-> NoErr,
                           self |-> r.self]
             IN  Only({added(r) : r \in {add_vacancies(self0, vacancies, TRUE)}})

(***************************************************************************)
(* class SuperCell(OrbitalSet)                                             *)
(***************************************************************************)
SuperCell_init(pc, dim_arg, pbc_arg, vacancies) ==
    Only({IF r.ok THEN [r EXCEPT !.self.hop_modifier = << >>,
                                 !.self.orb_pos_modifier = "None"] ELSE r :
          r \in {OrbitalSet_init(pc, dim_arg, pbc_arg, vacancies)}})

\* mutant of add_hopping: the lock is checked after the arguments
add_hopping_lock_last(self, rn_arg, orb_i, orb_j, energy) ==
    LET c == check_rn(rn_arg, 0)
        num_orbitals == num_orb_sc(self)
    IN  IF ~c.legal
        THEN [self |-> self, err |-> [kind |-> "CellIndexLenError", rn |-> rn_arg]]
        ELSE IF ~(0 <= orb_i /\ orb_i < num_orbitals)
        THEN [self |-> self, err |-> [kind |-> "SCOrbIndexError", orb |-> orb_i]]
        ELSE IF ~(0 <= orb_j /\ orb_j < num_orbitals)
        THEN [self |-> self, err |-> [kind |-> "SCOrbIndexError", orb |-> orb_j]]
        ELSE IF c.rn = << 0, 0, 0 >> /\ orb_i = orb_j
        THEN [self |-> self,
              err |-> [kind |-> "SCHopDiagonalError", rn |-> c.rn, orb |-> orb_i]]
        ELSE IF self.is_locked
        THEN [self |-> self, err |-> [kind |-> "SCLockError"]]
        ELSE [self |-> [self EXCEPT !.hop_modifier =
                           IntraHopping_add_hopping(@, c.rn, orb_i, orb_j, energy)],
              err |-> NoErr]

\* mutant of add_hopping: orb_j is not checked
add_hopping_no_orb_j(self, rn_arg, orb_i, orb_j, energy) ==
    LET c == check_rn(rn_arg, 0)
        num_orbitals == num_orb_sc(self)
    IN  IF self.is_locked THEN [self |-> self, err |-> [kind |-> "SCLockError"]]
        ELSE IF ~c.legal
        THEN [self |-> self, err |-> [kind |-> "CellIndexLenError", rn |-> rn_arg]]
        ELSE IF ~(0 <= orb_i /\ orb_i < num_orbitals)
        THEN [self |-> self, err |-> [kind |-> "SCOrbIndexError", orb |-> orb_i]]
        ELSE IF c.rn = << 0, 0, 0 >> /\ orb_i = orb_j
        THEN [self |-> self,
              err |-> [kind |-> "SCHopDiagonalError", rn |-> c.rn, orb |-> orb_i]]
        ELSE [self |-> [self EXCEPT !.hop_modifier =
                           IntraHopping_add_hopping(@, c.rn, orb_i, orb_j, energy)],
              err |-> NoErr]

add_hopping(self, rn_arg, orb_i, orb_j, energy) ==
    LET c == check_rn(rn_arg, 0)
        num_orbitals == num_orb_sc(self)
    IN  IF self.is_locked THEN [self |-> self, err |-> [kind |-> "SCLockError"]]
        ELSE IF ~c.legal
        THEN [self |-> self, err |-> [kind |-> "CellIndexLenError", rn |-> rn_arg]]
        ELSE IF ~(0 <= orb_i /\ orb_i < num_orbitals)
        THEN [self |-> self, err |-> [kind |-> "SCOrbIndexError", orb |-> orb_i]]
        ELSE IF ~(0 <= orb_j /\ orb_j < num_orbitals)
        THEN [self |-> self, err |-> [kind |-> "SCOrbIndexError", orb |-> orb_j]]
        ELSE IF c.rn = << 0, 0, 0 >> /\ orb_i = orb_j
        THEN [self |-> self,
              err |-> [kind |-> "SCHopDiagonalError", rn |-> c.rn, orb |-> orb_i]]
        ELSE [self |-> [self EXCEPT !.hop_modifier =
                           IntraHopping_add_hopping(@, c.rn, orb_i, orb_j, energy)],
              err |-> NoErr]

set_orb_pos_modifier(self, modifier) ==
    IF self.is_locked THEN [self |-> self, err |-> [kind |-> "SCLockError"]]
    ELSE [self |-> [self EXCEPT !.orb_pos_modifier = modifier], err |-> NoErr]

\* mutant of _init_hop: self.dim handed over in the place of self.pbc
_init_hop_dim_as_pbc(self) ==
    build_hop(self.prim_cell.hop_ind, self.prim_cell.hop_eng,
              self.dim, self.dim, num_orb_pc(self),
              self.orb_id_pc, self.vac_id_sc)

\* mutant of _init_hop: no vacancy is handed to the builder
_init_hop_no_vac(self) ==
    build_hop(self.prim_cell.hop_ind, self.prim_cell.hop_eng,
              self.dim, self.pbc, num_orb_pc(self),
              self.orb_id_pc, << >>)

\* the general algorithm on the whole primitive hopping table
_init_hop(self) ==
    build_hop(self.prim_cell.hop_ind, self.prim_cell.hop_eng,
              self.dim, self.pbc, num_orb_pc(self),
              self.orb_id_pc, self.vac_id_sc)

\* mutant of _init_hop_fast: the free part is not appended
_init_hop_fast_no_free(self) ==
    LET sp == split_pc_hop(self.prim_cell.hop_ind, self.prim_cell.hop_eng,
                           self.pbc)
    IN  build_hop_pbc(sp.ind_pbc, sp.eng_pbc, self.dim, self.pbc,
                      num_orb_pc(self))

\* mutant of _init_hop_fast: the free part is appended twice, the periodic
\* part not at all
_init_hop_fast_no_pbc(self) ==
    LET sp == split_pc_hop(self.prim_cell.hop_ind, self.prim_cell.hop_eng,
                           self.pbc)
        h_free == build_hop(sp.ind_free, sp.eng_free, self.dim, self.pbc,
                            num_orb_pc(self), self.orb_id_pc, self.vac_id_sc)
    IN  AppendArrays(h_free, h_free)

\* the fast algorithm: the periodic terms in closed form, the others by
\* the general algorithm
_init_hop_fast(self) ==
    LET sp == split_pc_hop(self.prim_cell.hop_ind, self.prim_cell.hop_eng,
                           self.pbc)
        h_pbc == build_hop_pbc(sp.ind_pbc, sp.eng_pbc, self.dim, self.pbc,
                               num_orb_pc(self))
        h_free == build_hop(sp.ind_free, sp.eng_free, self.dim, self.pbc,
                            num_orb_pc(self), self.orb_id_pc, self.vac_id_sc)
    IN  AppendArrays(h_pbc, h_free)

\* mutant of _merge_loop: a conjugate match takes the energy as given
RECURSIVE _merge_loop_no_conj(_, _, _, _, _)
_merge_loop_no_conj(hop, hop_ind, hop_eng, ih, new) ==
    IF ih > Len(hop_ind) THEN AppendArrays(hop, new)
    ELSE LET id_bra == hop_ind[ih][4]
             id_ket == hop_ind[ih][5]
             hop_energy == hop_eng[ih]
             eq == find_equiv_hopping(hop.hop_i, hop.hop_j, id_bra, id_ket)
             id_same == eq[1]
             id_conj == eq[2]
         IN  IF id_same # -1
             THEN _merge_loop_no_conj([hop EXCEPT !.hop_v[id_same + 1] = hop_energy],
                                      hop_ind, hop_eng, ih + 1, new)
             ELSE IF id_conj # -1
             THEN _merge_loop_no_conj([hop EXCEPT !.hop_v[id_conj + 1] = hop_energy],
                                      hop_ind, hop_eng, ih + 1, new)
             ELSE _merge_loop_no_conj(hop, hop_ind, hop_eng, ih + 1,
                                      [hop_i |-> Append(new.hop_i, id_bra),
                                       hop_j |-> Append(new.hop_j, id_ket),
                                       hop_v |-> Append(new.hop_v, hop_energy)])

\* The loop of get_hop over the modifier entries from entry ih on.  The
\* search always reads the initial hop_i and hop_j: new terms are collected
\* in `new' and appended after the loop.
RECURSIVE _merge_loop(_, _, _, _, _)
_merge_loop(hop, hop_ind, hop_eng, ih, new) ==
    IF ih > Len(hop_ind) THEN AppendArrays(hop, new)
    ELSE LET id_bra == hop_ind[ih][4]
             id_ket == hop_ind[ih][5]
             hop_energy == hop_eng[ih]
             eq == find_equiv_hopping(hop.hop_i, hop.hop_j, id_bra, id_ket)
             id_same == eq[1]
             id_conj == eq[2]
         IN  IF id_same # -1
             THEN _merge_loop([hop EXCEPT !.hop_v[id_same + 1] = hop_energy],
                              hop_ind, hop_eng, ih + 1, new)
             ELSE IF id_conj # -1
             THEN _merge_loop([hop EXCEPT !.hop_v[id_conj + 1] = Conj(hop_energy)],
                              hop_ind, hop_eng, ih + 1, new)
             ELSE _merge_loop(hop, hop_ind, hop_eng, ih + 1,
                              [hop_i |-> Append(new.hop_i, id_bra),
                               hop_j |-> Append(new.hop_j, id_ket),
                               hop_v |-> Append(new.hop_v, hop_energy)])

\* "Apply hopping modifier" of get_hop
apply_hop_modifier(hop, mod) ==
    IF Len(mod) # 0
    THEN LET a == IntraHopping_to_array(mod)
         IN  _merge_loop(hop, a.hop_ind, a.hop_eng, 1, EmptyHop)
    ELSE hop

\* get_hop() that builds the terms from the arrays as they were before the
\* synchronization it performs
get_hop_stale_arrays(self, use_fast) ==
    LET fast == IF use_fast = "auto" THEN Len(self.vacancy_list) = 0
                ELSE use_fast = "True"
    IN  [self |-> sync_array(self, FALSE), err |-> NoErr,
         ret |-> Only({apply_hop_modifier(hop, self.hop_modifier) :
                       hop \in {IF fast THEN _init_hop_fast(self)
                                ELSE _init_hop(self)}})]

\* use_fast is "auto", "True" or "False"
get_hop(self, use_fast) ==
    LET body(s) ==
            LET fast == IF use_fast = "auto" THEN Len(s.vacancy_list) = 0
                        ELSE use_fast = "True"
            IN  [self |-> s, err |-> NoErr,
                 ret |-> Only({apply_hop_modifier(hop, s.hop_modifier) :
                               hop \in {IF fast THEN _init_hop_fast(s)
                                        ELSE _init_hop(s)}})]
    IN  Only({body(s) : s \in {sync_array(self, FALSE)}})

\* vectors of three integers
VecAdd(u, v) == [i \in 1..3 |-> u[i] + v[i]]

VecSub(u, v) == [i \in 1..3 |-> u[i] - v[i]]

VecNeg(u) == [i \in 1..3 |-> -u[i]]

\* np.matmul of a row vector and a 3x3 matrix
VecMat(u, m) == [j \in 1..3 |-> u[1] * m[1][j] + u[2] * m[2][j] + u[3] * m[3][j]]

\* core.build_orb_eng: the on-site energy of every orbital of the supercell
build_orb_eng(pc_orb_eng, orb_pc) ==
    [k \in 1..Len(orb_pc) |-> pc_orb_eng[orb_pc[k][4] + 1]]

\* core.build_orb_pos: the Cartesian position of every orbital of the
\* supercell.  The fractional coordinates of the primitive cell are kept
\* in halves (pc_orb_pos holds twice the coordinate) and the lattice vectors
\* have even components, so that positions are integers.
build_orb_pos(pc_lat_vec, pc_orb_pos, orb_pc) ==
    LET half == [i \in 1..3 |-> [j \in 1..3 |-> pc_lat_vec[i][j] \div 2]]
        frac2(k) == [i \in 1..3 |->
                        2 * orb_pc[k][i] + pc_orb_pos[orb_pc[k][4] + 1][i]]
    IN  [k \in 1..Len(orb_pc) |-> VecMat(frac2(k), half)]

\* SuperCell.sc_lat_vec
sc_lat_vec(self) ==
    [i \in 1..3 |-> [j \in 1..3 |-> self.dim[i] * self.prim_cell.lat_vec[i][j]]]

\* mutant of get_orb_eng: sync_array() is not called first
get_orb_eng_no_sync(self) ==
    [self |-> self, err |-> NoErr,
     ret |-> build_orb_eng(self.prim_cell.orb_eng, self.orb_id_pc)]

\* get_orb_eng()
get_orb_eng(self) ==
    LET body(s) ==
            [self |-> s, err |-> NoErr,
             ret |-> build_orb_eng(s.prim_cell.orb_eng, s.orb_id_pc)]
    IN  Only({body(s) : s \in {sync_array(self, FALSE)}})

\* the position modifier is a function of the caller that changes orb_pos
\* in place; "shift" moves orbital k by k along the third axis
_apply_orb_pos_modifier(modifier, orb_pos) ==
    IF modifier = "None" THEN orb_pos
    ELSE [k \in 1..Len(orb_pos) |-> VecAdd(orb_pos[k], << 0, 0, k >>)]

\* get_orb_pos()
get_orb_pos(self) ==
    LET body(s) ==
            LET orb_pos == build_orb_pos(s.prim_cell.lat_vec,
                                         s.prim_cell.orb_pos, s.orb_id_pc)
                moved == [k \in 1..Len(orb_pos) |->
                             VecAdd(orb_pos[k], s.prim_cell.origin)]
            IN  [self |-> s, err |-> NoErr,
                 ret |-> _apply_orb_pos_modifier(s.orb_pos_modifier, moved)]
    IN  Only({body(s) : s \in {sync_array(self, FALSE)}})

\* the number of supercells along an axis that a term leaves through a
\* periodic boundary
_rn_wrap(ji, ni) == (ji - (ji % ni)) \div ni

\* the supercell offsets of the terms of build_hop, in its order: the
\* number of supercells each term leaves through a periodic boundary
build_hop_rn(pc_hop_ind, d, p, nopc, orb_pc, vac_sc) ==
    LET num_hop_pc == Len(pc_hop_ind)
        num_orb == Len(orb_pc)
        cand(k) ==
            LET id_sc_i == (k - 1) \div num_hop_pc
                ih == ((k - 1) % num_hop_pc) + 1
                id_pc_i == orb_pc[id_sc_i + 1]
                t == pc_hop_ind[ih]
                ja == _wrap_pbc(id_pc_i[1] + t[1], d[1], p[1])
                jb == _wrap_pbc(id_pc_i[2] + t[2], d[2], p[2])
                jc == _wrap_pbc(id_pc_i[3] + t[3], d[3], p[3])
                id_sc_j == IF ja = -1 \/ jb = -1 \/ jc = -1 THEN -1
                           ELSE id_pc2sc(d, nopc, << ja, jb, jc, t[5] >>, vac_sc)
            IN  [rn |-> << _rn_wrap(id_pc_i[1] + t[1], d[1]),
                           _rn_wrap(id_pc_i[2] + t[2], d[2]),
                           _rn_wrap(id_pc_i[3] + t[3], d[3]) >>,
                 ok |-> id_pc_i[4] = t[4] /\ id_sc_j # -1]
        all == [k \in 1..(num_orb * num_hop_pc) |-> cand(k)]
        kept(c) == c.ok
        terms == SelectSeq(all, kept)
    IN  [k \in 1..Len(terms) |-> terms[k].rn]

\* the supercell offsets of the terms of build_hop_pbc, in its order
build_hop_pbc_rn(ind_pbc, d) ==
    LET num_hop_pbc == Len(ind_pbc)
        num_cell == d[1] * d[2] * d[3]
        term(k) ==
            LET cell == (k - 1) \div num_hop_pbc
                ih == ((k - 1) % num_hop_pbc) + 1
                t == ind_pbc[ih]
                ia == cell \div (d[3] * d[2])
                ib == (cell \div d[3]) % d[2]
                ic == cell % d[3]
            IN  << _rn_wrap(ia + t[1], d[1]), _rn_wrap(ib + t[2], d[2]),
                   _rn_wrap(ic + t[3], d[3]) >>
    IN  [k \in 1..(num_cell * num_hop_pbc) |-> term(k)]

\* the distance of every term of hop: from the bra to the image of the ket
\* in the supercell the term reaches (the distance before wrapping)
_hop_dr(hop, rn, sc_lat, orb_pos) ==
    [k \in 1..Len(hop.hop_i) |->
        VecSub(VecAdd(orb_pos[hop.hop_j[k] + 1], VecMat(rn[k], sc_lat)),
               orb_pos[hop.hop_i[k] + 1])]

\* dr of core.build_hop with data_kind=1
build_hop_dr(pc_hop_ind, pc_hop_eng, d, p, nopc, orb_pc, vac_sc, sc_lat, orb_pos) ==
    _hop_dr(build_hop(pc_hop_ind, pc_hop_eng, d, p, nopc, orb_pc, vac_sc),
            build_hop_rn(pc_hop_ind, d, p, nopc, orb_pc, vac_sc),
            sc_lat, orb_pos)

\* dr of core.build_hop_pbc with data_kind=1
build_hop_pbc_dr(ind_pbc, eng_pbc, d, p, nopc, sc_lat, orb_pos) ==
    _hop_dr(build_hop_pbc(ind_pbc, eng_pbc, d, p, nopc),
            build_hop_pbc_rn(ind_pbc, d), sc_lat, orb_pos)

\* dr of _init_hop(with_dr=True, orb_pos)
_init_hop_dr(self, orb_pos) ==
    build_hop_dr(self.prim_cell.hop_ind, self.prim_cell.hop_eng, self.dim,
                 self.pbc, num_orb_pc(self), self.orb_id_pc, self.vac_id_sc,
                 sc_lat_vec(self), orb_pos)

\* dr of _init_hop_fast(with_dr=True, orb_pos): np.vstack((dr_pbc, dr_free))
_init_hop_fast_dr(self, orb_pos) ==
    LET sp == split_pc_hop(self.prim_cell.hop_ind, self.prim_cell.hop_eng,
                           self.pbc)
    IN  build_hop_pbc_dr(sp.ind_pbc, sp.eng_pbc, self.dim, self.pbc,
                         num_orb_pc(self), sc_lat_vec(self), orb_pos)
        \o build_hop_dr(sp.ind_free, sp.eng_free, self.dim, self.pbc,
                        num_orb_pc(self), self.orb_id_pc, self.vac_id_sc,
                        sc_lat_vec(self), orb_pos)

\* the supercell offsets of the terms of _init_hop
_init_hop_rn(self) ==
    build_hop_rn(self.prim_cell.hop_ind, self.dim, self.pbc, num_orb_pc(self),
                 self.orb_id_pc, self.vac_id_sc)

\* the supercell offsets of the terms of _init_hop_fast
_init_hop_fast_rn(self) ==
    LET sp == split_pc_hop(self.prim_cell.hop_ind, self.prim_cell.hop_eng,
                           self.pbc)
    IN  build_hop_pbc_rn(sp.ind_pbc, self.dim)
        \o build_hop_rn(sp.ind_free, self.dim, self.pbc, num_orb_pc(self),
                        self.orb_id_pc, self.vac_id_sc)

\* The loop of get_dr over the modifier entries from entry ih on; hop_i and
\* hop_j are the initial arrays, the new rows are stacked after the loop.
RECURSIVE _merge_loop_dr(_, _, _, _, _, _, _)
_merge_loop_dr(hop, dr, hop_ind, ih, dr_new, orb_pos, sc_lat) ==
    IF ih > Len(hop_ind) THEN dr \o dr_new
    ELSE LET id_bra == hop_ind[ih][4]
             id_ket == hop_ind[ih][5]
             rn == VecMat(<< hop_ind[ih][1], hop_ind[ih][2], hop_ind[ih][3] >>,
                          sc_lat)
             dr_i == VecSub(VecAdd(orb_pos[id_ket + 1], rn), orb_pos[id_bra + 1])
             eq == find_equiv_hopping(hop.hop_i, hop.hop_j, id_bra, id_ket)
             id_same == eq[1]
             id_conj == eq[2]
         IN  IF id_same # -1
             THEN _merge_loop_dr(hop, [dr EXCEPT ![id_same + 1] = dr_i],
                                 hop_ind, ih + 1, dr_new, orb_pos, sc_lat)
             ELSE IF id_conj # -1
             THEN _merge_loop_dr(hop, [dr EXCEPT ![id_conj + 1] = VecNeg(dr_i)],
                                 hop_ind, ih + 1, dr_new, orb_pos, sc_lat)
             ELSE _merge_loop_dr(hop, dr, hop_ind, ih + 1, Append(dr_new, dr_i),
                                 orb_pos, sc_lat)

\* orb_pos[id_ket] and orb_pos[id_bra] of the loop of get_dr: the first
\* index, from entry ih on, that is not a row of orb_pos (numpy raises
\* IndexError there), -1 if there is none; id_ket is read first
RECURSIVE _dr_first_bad(_, _, _)
_dr_first_bad(hop_ind, ih, num_rows) ==
    IF ih > Len(hop_ind) THEN -1
    ELSE IF hop_ind[ih][5] >= num_rows THEN hop_ind[ih][5]
    ELSE IF hop_ind[ih][4] >= num_rows THEN hop_ind[ih][4]
    ELSE _dr_first_bad(hop_ind, ih + 1, num_rows)

\* get_dr(use_fast); use_fast is "auto", "True" or "False"
get_dr(self, use_fast) ==
    LET merged(s, hop, dr, orb_pos) ==
            IF Len(s.hop_modifier) # 0
            THEN _merge_loop_dr(hop, dr, IntraHopping_to_array(s.hop_modifier).hop_ind,
                                1, << >>, orb_pos, sc_lat_vec(s))
            ELSE dr
        init(s, fast, orb_pos) ==
            IF fast
            THEN merged(s, _init_hop_fast(s), _init_hop_fast_dr(s, orb_pos), orb_pos)
            ELSE merged(s, _init_hop(s), _init_hop_dr(s, orb_pos), orb_pos)
        body(s) ==
            LET fast == IF use_fast = "auto" THEN Len(s.vacancy_list) = 0
                        ELSE use_fast = "True"
                done(g) ==
                    Only({IF bad # -1
                          THEN [self |-> g.self,
                                err |-> [kind |-> "IndexError", index |-> bad],
                                ret |-> << >>]
                          ELSE [self |-> g.self, err |-> NoErr,
                                ret |-> init(g.self, fast, g.ret)] :
                          bad \in {_dr_first_bad(
                                      IntraHopping_to_array(s.hop_modifier).hop_ind,
                                      1, Len(g.ret))}})
            IN  Only({done(g) : g \in {get_orb_pos(s)}})
    IN  Only({body(s) : s \in {sync_array(self, FALSE)}})

\* "Add vacancies" and "Also trim hop_modifier" of trim, for the object g
\* that get_hop() has left and the dangling orbitals id_pc_trim
_trim_apply(g, id_pc_trim, do_sync) ==
    Only({IF c.err.kind # "none" THEN [self |-> c.self, err |-> c.err]
          ELSE Only({IF a.err.kind # "none" THEN a
                     ELSE [self |-> [a.self EXCEPT !.hop_modifier =
                                        IntraHopping_remove_orbitals(@, c.ret)],
                           err |-> NoErr] :
                     a \in {add_vacancies(c.self, id_pc_trim, do_sync)}}) :
          c \in {orb_id_pc2sc_array(g, id_pc_trim)}})

\* mutant of trim: the new vacancies are added without synchronization
trim_no_sync(self) ==
    IF self.is_locked THEN [self |-> self, err |-> [kind |-> "SCLockError"]]
    ELSE Only({_trim_apply(g.self,
                           get_orb_id_trim(g.self.orb_id_pc, g.ret.hop_i,
                                           g.ret.hop_j), FALSE) :
               g \in {get_hop(self, "auto")}})

trim(self) ==
    IF self.is_locked THEN [self |-> self, err |-> [kind |-> "SCLockError"]]
    ELSE Only({_trim_apply(g.self,
                           get_orb_id_trim(g.self.orb_id_pc, g.ret.hop_i,
                                           g.ret.hop_j), TRUE) :
               g \in {get_hop(self, "auto")}})

(***************************************************************************)
(* The object under test and the calls made on it.                         *)
(***************************************************************************)
Self ==
    [prim_cell |-> prim_cell, dim |-> dim, pbc |-> pbc,
     vacancy_list |-> vacancy_list, hash_dict |-> hash_dict,
     vac_id_pc |-> vac_id_pc, vac_id_sc |-> vac_id_sc,
     orb_id_pc |-> orb_id_pc, is_locked |-> is_locked,
     hop_modifier |-> hop_modifier, orb_pos_modifier |-> orb_pos_modifier]

\* the object after a call
Becomes(s) ==
    /\ prim_cell' = s.prim_cell
    /\ dim' = s.dim
    /\ pbc' = s.pbc
    /\ vacancy_list' = s.vacancy_list
    /\ hash_dict' = s.hash_dict
    /\ vac_id_pc' = s.vac_id_pc
    /\ vac_id_sc' = s.vac_id_sc
    /\ orb_id_pc' = s.orb_id_pc
    /\ is_locked' = s.is_locked
    /\ hop_modifier' = s.hop_modifier
    /\ orb_pos_modifier' = s.orb_pos_modifier

Call(op, arg, err, ret) == [op |-> op, arg |-> arg, err |-> err, ret |-> ret]

AllPbc == {<< a, b, c >> : a \in BOOLEAN, b \in BOOLEAN, c \in BOOLEAN}

\* before the constructor runs there is only the primitive cell
NoObject(pc) ==
    /\ phase = "new"
    /\ prim_cell = pc
    /\ dim = << >>
    /\ pbc = << >>
    /\ vacancy_list = << >>
    /\ hash_dict = << >>
    /\ vac_id_pc = << >>
    /\ vac_id_sc = << >>
    /\ orb_id_pc = << >>
    /\ is_locked = FALSE
    /\ hop_modifier = << >>
    /\ orb_pos_modifier = "None"
    /\ last = Call("none", << >>, NoErr, << >>)

\* SuperCell(prim_cell, dim, pbc, vacancies)
Construct(Dims, Pbcs, Vacs) ==
    /\ phase = "new"
    /\ \E d \in Dims, p \in Pbcs, v \in Vacs :
          \E r \in {SuperCell_init(prim_cell, d, p, v)} :
              /\ last' = Call("init", [dim |-> d, pbc |-> p, vacancies |-> v],
                              r.err, << >>)
              /\ IF r.ok
                 THEN /\ phase' = "ready"
                      /\ Becomes(r.self)
                 ELSE /\ phase' = "failed"
                      /\ prim_cell' = r.prim_cell
                      /\ UNCHANGED << dim, pbc, vacancy_list, hash_dict,
                                      vac_id_pc, vac_id_sc, orb_id_pc,
                                      is_locked, hop_modifier,
                                      orb_pos_modifier >>

\* get_hop(use_fast)
GetHop(Modes) ==
    /\ phase = "ready"
    /\ \E use_fast \in Modes :
          \E r \in {get_hop(Self, use_fast)} :
              /\ Becomes(r.self)
              /\ last' = Call("get_hop", use_fast, r.err, r.ret)
    /\ UNCHANGED phase

\* every primitive-cell index of the supercell
ValidIds ==
    {<< a, b, c, o >> : a \in 0..(dim[1] - 1), b \in 0..(dim[2] - 1),
                        c \in 0..(dim[3] - 1),
                        o \in 0..(prim_cell.num_orb - 1)}

\* indices that _check_id_pc rejects: too short, cell out of range (above,
\* below), orbital out of range
BadIds ==
    {<< 0, 0, 0 >>, << dim[1], 0, 0, 0 >>, << 0, -1, 0, 0 >>,
     << 0, 0, 0, prim_cell.num_orb >>}

\* the vacancies handed to the object: every index of the supercell, one
\* that is too short and one that is out of range
VacIds == ValidIds \cup {<< 0, 0, 0 >>, << dim[1], 0, 0, 0 >>}

\* the elements of the lists handed to the object: the first and the last
\* index of the supercell and one that is too short
BatchIds ==
    {<< 0, 0, 0, 0 >>,
     << dim[1] - 1, dim[2] - 1, dim[3] - 1, prim_cell.num_orb - 1 >>,
     << 0, 0, 0 >>}

\* the lists of at most two elements of S
Batches(S) ==
    {<< >>} \cup {<< x >> : x \in S} \cup {<< x, y >> : x \in S, y \in S}

\* add_vacancy(vacancy, sync_array)
AddVacancy ==
    /\ phase = "ready"
    /\ \E v \in VacIds, do_sync \in BOOLEAN :
          \E r \in {add_vacancy(Self, v, do_sync)} :
              /\ Len(r.self.vacancy_list) <= MaxVac
              /\ Becomes(r.self)
              /\ last' = Call("add_vacancy", << >>, r.err, << >>)
    /\ UNCHANGED phase

\* add_vacancies(vacancies, sync_array)
AddVacanciesOf(Lists) ==
    /\ phase = "ready"
    /\ \E vs \in Lists, do_sync \in BOOLEAN :
          \E r \in {add_vacancies(Self, vs, do_sync)} :
              /\ Len(r.self.vacancy_list) <= MaxVac
              /\ Becomes(r.self)
              /\ last' = Call("add_vacancies", << >>, r.err, << >>)
    /\ UNCHANGED phase

\* set_vacancies(vacancies, sync_array)
SetVacanciesOf(Lists) ==
    /\ phase = "ready"
    /\ \E vs \in Lists, do_sync \in BOOLEAN :
          \E r \in {set_vacancies(Self, vs, do_sync)} :
              /\ Len(r.self.vacancy_list) <= MaxVac
              /\ Becomes(r.self)
              /\ last' = Call("set_vacancies", << >>, r.err, << >>)
    /\ UNCHANGED phase

AddVacancies == AddVacanciesOf(Batches(BatchIds))

SetVacancies == SetVacanciesOf(Batches(BatchIds))

\* sync_array(force_sync)
SyncArray ==
    /\ phase = "ready"
    /\ \E force_sync \in BOOLEAN :
          \E s \in {sync_array(Self, force_sync)} :
              /\ Becomes(s)
              /\ last' = Call("sync_array", force_sync, NoErr, << >>)
    /\ UNCHANGED phase

\* orb_id_sc2pc(id_sc), for the live indices, the first one that is too
\* large, and -1
OrbIdSc2Pc ==
    /\ phase = "ready"
    /\ \E id_sc \in -1..num_orb_sc(Self) :
          \E r \in {orb_id_sc2pc(Self, id_sc)} :
              /\ Becomes(r.self)
              /\ last' = Call("orb_id_sc2pc", id_sc, r.err, r.ret)
    /\ UNCHANGED phase

\* orb_id_pc2sc(id_pc)
OrbIdPc2Sc ==
    /\ phase = "ready"
    /\ \E id_pc \in ValidIds \cup BadIds :
          \E r \in {orb_id_pc2sc(Self, id_pc)} :
              /\ Becomes(r.self)
              /\ last' = Call("orb_id_pc2sc", id_pc, r.err, r.ret)
    /\ UNCHANGED phase

\* orb_id_sc2pc_array(id_sc_array)
OrbIdSc2PcArray(Arrays) ==
    /\ phase = "ready"
    /\ \E id_sc_array \in Arrays :
          \E r \in {orb_id_sc2pc_array(Self, id_sc_array)} :
              /\ Becomes(r.self)
              /\ last' = Call("orb_id_sc2pc_array", id_sc_array, r.err, r.ret)
    /\ UNCHANGED phase

\* orb_id_pc2sc_array(id_pc_array)
OrbIdPc2ScArray(Arrays) ==
    /\ phase = "ready"
    /\ \E id_pc_array \in Arrays :
          \E r \in {orb_id_pc2sc_array(Self, id_pc_array)} :
              /\ Becomes(r.self)
              /\ last' = Call("orb_id_pc2sc_array", id_pc_array, r.err, r.ret)
    /\ UNCHANGED phase

\* get_orb_eng()
GetOrbEng ==
    /\ phase = "ready"
    /\ \E r \in {get_orb_eng(Self)} :
          /\ Becomes(r.self)
          /\ last' = Call("get_orb_eng", << >>, r.err, r.ret)
    /\ UNCHANGED phase

\* get_orb_pos()
GetOrbPos ==
    /\ phase = "ready"
    /\ \E r \in {get_orb_pos(Self)} :
          /\ Becomes(r.self)
          /\ last' = Call("get_orb_pos", << >>, r.err, r.ret)
    /\ UNCHANGED phase

\* get_dr(use_fast)
GetDr(Modes) ==
    /\ phase = "ready"
    /\ \E use_fast \in Modes :
          \E r \in {get_dr(Self, use_fast)} :
              /\ Becomes(r.self)
              /\ last' = Call("get_dr", use_fast, r.err, r.ret)
    /\ UNCHANGED phase

\* Lockable.lock(): a downstream consumer takes the object
Lock ==
    /\ phase = "ready"
    /\ ~is_locked
    /\ Becomes([Self EXCEPT !.is_locked = TRUE])
    /\ last' = Call("lock", << >>, NoErr, << >>)
    /\ UNCHANGED phase

\* add_hopping(rn, orb_i, orb_j, energy)
AddHopping(Rns, Pairs, Engs) ==
    /\ phase = "ready"
    /\ \E rn \in Rns, pair \in Pairs, energy \in Engs :
          \E r \in {add_hopping(Self, rn, pair[1], pair[2], energy)} :
              /\ Len(r.self.hop_modifier) <= MaxMod
              /\ Becomes(r.self)
              /\ last' = Call("add_hopping", << rn, pair[1], pair[2] >>,
                              r.err, << >>)
    /\ UNCHANGED phase

\* set_orb_pos_modifier(orb_pos_modifier)
SetOrbPosModifier ==
    /\ phase = "ready"
    /\ \E modifier \in {"None", "shift"} :
          \E r \in {set_orb_pos_modifier(Self, modifier)} :
              /\ Becomes(r.self)
              /\ last' = Call("set_orb_pos_modifier", modifier, r.err, << >>)
    /\ UNCHANGED phase

\* trim()
Trim ==
    /\ phase = "ready"
    /\ \E r \in {trim(Self)} :
          /\ Becomes(r.self)
          /\ last' = Call("trim", << >>, r.err, << >>)
    /\ UNCHANGED phase

(***************************************************************************)
(* SpecBuild: construction and hopping terms over a family of primitive    *)
(* cells, dimensions and boundary conditions (no vacancies, no modifier).  *)
(***************************************************************************)
\* (rn, orbital i, orbital j) of the candidate terms of a cell of n
\* orbitals, in a fixed order; no term is the conjugate of another
HopKeys(n) ==
    IF n = 1
    THEN << << 1, 0, 0, 0, 0 >>, << 2, 0, 0, 0, 0 >>,
            << -1, 1, 0, 0, 0 >>, << 0, 0, 1, 0, 0 >> >>
    ELSE << << 1, 0, 0, 0, 1 >>, << 1, 0, 0, 1, 0 >>,
            << 2, 0, 0, 0, 0 >>, << -1, 1, 0, 1, 1 >>,
            << 0, 0, 1, 0, 1 >>, << 0, 0, 0, 0, 1 >> >>

\* energy of the k-th term of a table
HopEng == << << 1, 0 >>, << 0, 2 >>, << 3, 1 >>, << 2, -1 >>, << 1, 1 >> >>

\* the strictly increasing index lists into 1..n of length 0..len
RECURSIVE IncSeqs(_, _)
IncSeqs(n, len) ==
    IF len = 0 THEN {<< >>}
    ELSE LET shorter == IncSeqs(n, len - 1)
             longest == {q \in shorter : Len(q) = len - 1}
             from(q) == IF q = << >> THEN 1 ELSE q[Len(q)] + 1
         IN  shorter \cup UNION {{Append(q, k) : k \in from(q)..n} : q \in longest}

\* the primitive cells of 1 or 2 orbitals with 1..MaxHop of the candidate
\* terms
CellsOf(n) ==
    {[num_orb |-> n,
      hop_ind |-> [k \in 1..Len(q) |-> HopKeys(n)[q[k]]],
      hop_eng |-> [k \in 1..Len(q) |-> HopEng[k]],
      is_locked |-> FALSE] :
        q \in IncSeqs(Len(HopKeys(n)), MaxHop) \ {<< >>}}

BuildCells == CellsOf(1) \cup CellsOf(2)

BuildDims ==
    {<< a, bc[1], bc[2] >> :
        a \in 1..MaxDim, bc \in {<< 1, 1 >>, << 2, 1 >>, << 1, 2 >>}}

InitBuild == \E pc \in BuildCells : NoObject(pc)

ConstructBuild == Construct(BuildDims, AllPbc, {<< >>})

GetHopBuild == GetHop({"auto", "False"})

NextBuild == ConstructBuild \/ GetHopBuild

SpecBuild == InitBuild /\ [][NextBuild]_vars

(***************************************************************************)
(* Properties of construction and of the hopping terms (SpecBuild).        *)
(***************************************************************************)
\* get_hop() has just returned on an object without vacancies or modifier
HopReturned ==
    /\ phase = "ready"
    /\ last.op = "get_hop"
    /\ vacancy_list = << >>
    /\ hop_modifier = << >>

\* the primitive cell is a chain along axis x: one hopping term, at cell
\* offset +1 along x, and the supercell has one cell along the other axes
IsChain(x) ==
    /\ Len(prim_cell.hop_ind) = 1
    /\ \A y \in 1..3 : prim_cell.hop_ind[1][y] = (IF y = x THEN 1 ELSE 0)
    /\ \A y \in 1..3 : y # x => dim[y] = 1

\* the furthest cell the hopping terms reach along axis x (1..3), computed
\* from the table
HopRange(x) ==
    MaxOfSet({Abs(prim_cell.hop_ind[k][x]) : k \in 1..Len(prim_cell.hop_ind)})

\* C3: for every accepted supercell without modifier, no two stored terms
\* of get_hop() are the conjugate counterparts of each other: no entries
\* k # l have (hop_i[k], hop_j[k]) = (hop_j[l], hop_i[l]).
C3_NoConjugatePair ==
    HopReturned =>
        \A k, l \in 1..Len(last.ret.hop_i) :
            k # l => ~(/\ last.ret.hop_i[k] = last.ret.hop_j[l]
                       /\ last.ret.hop_j[k] = last.ret.hop_i[l])

\* C4: with zero vacancies the fast path and the general path return the
\* same (hop_i, hop_j, hop_v) triples as unordered collections: what
\* get_hop returned by one path equals what the other path builds.
C4_FastEqualsGeneral ==
    HopReturned =>
        IF last.arg = "False"
        THEN SameTerms(last.ret, _init_hop_fast(Self))
        ELSE SameTerms(last.ret, _init_hop(Self))

\* C4 witness: the fast path returned terms of both partitions (periodic
\* and free terms in the table), in another order than the general path.
C4_Witness ==
    /\ HopReturned
    /\ last.arg = "auto"
    /\ \E k \in 1..Len(prim_cell.hop_ind) : _is_pbc_hop(prim_cell.hop_ind[k], pbc)
    /\ \E k \in 1..Len(prim_cell.hop_ind) : ~_is_pbc_hop(prim_cell.hop_ind[k], pbc)
    /\ Len(last.ret.hop_i) > 2
    /\ last.ret # _init_hop(Self)

C7_PeriodicChain ==
    \A x \in 1..3 :
        (HopReturned /\ IsChain(x) /\ pbc[x] = 1) =>
            /\ num_orb_sc(Self) = prim_cell.num_orb * dim[x]
            /\ Len(last.ret.hop_i) = dim[x]
            /\ Len(last.ret.hop_j) = dim[x]
            /\ \A k \in 1..Len(last.ret.hop_v) :
                  AbsSq(last.ret.hop_v[k]) = AbsSq(prim_cell.hop_eng[1])

\* C7 witness: the chain of 4 cells with 2 orbitals per cell: 8 orbitals,
\* 4 terms.
C7_Witness ==
    /\ HopReturned
    /\ last.arg = "auto"
    /\ IsChain(1)
    /\ pbc[1] = 1
    /\ dim[1] = 4
    /\ prim_cell.num_orb = 2
    /\ num_orb_sc(Self) = 8
    /\ Len(last.ret.hop_i) = 4

\* the cell index along axis x of compacted orbital i
CellOf(i, x) == orb_id_pc[i + 1][x]

\* stored term k is primitive term t between unwrapped cells along every
\* free axis (and wrapped along the periodic ones)
Unwrapped(h, k, t) ==
    /\ orb_id_pc[h.hop_i[k] + 1][4] = t[4]
    /\ orb_id_pc[h.hop_j[k] + 1][4] = t[5]
    /\ \A x \in 1..3 :
          IF pbc[x] = 0
          THEN CellOf(h.hop_j[k], x) = CellOf(h.hop_i[k], x) + t[x]
          ELSE CellOf(h.hop_j[k], x) = (CellOf(h.hop_i[k], x) + t[x]) % dim[x]

\* C8: along a free axis a term that leaves [0, dim) is discarded, not
\* wrapped: every stored term joins cells at the primitive offset, and the
\* free chain of n cells has exactly n - 1 terms, none from the last cell
\* to the first.
C8_FreeAxisDiscards ==
    HopReturned =>
        /\ \A k \in 1..Len(last.ret.hop_i) :
              \E ih \in 1..Len(prim_cell.hop_ind) :
                  Unwrapped(last.ret, k, prim_cell.hop_ind[ih])
        /\ \A x \in 1..3 :
              (IsChain(x) /\ pbc[x] = 0) =>
                  /\ Len(last.ret.hop_i) = dim[x] - 1
                  /\ \A k \in 1..Len(last.ret.hop_i) :
                        ~(/\ CellOf(last.ret.hop_i[k], x) = dim[x] - 1
                          /\ CellOf(last.ret.hop_j[k], x) = 0)

\* C8 witness: the free chain of 4 cells: 3 terms.
C8_Witness ==
    /\ HopReturned
    /\ IsChain(1)
    /\ pbc[1] = 0
    /\ dim[1] = 4
    /\ Len(last.ret.hop_i) = 3

(***************************************************************************)
(* Spec: the orbital set of a small supercell under vacancy changes,       *)
(* synchronization, index conversion and locking.                          *)
(***************************************************************************)
\* a ladder (2 orbitals per cell) and a chain along b (1 orbital)
SmallCells ==
    {[num_orb |-> 2,
      hop_ind |-> << << 1, 0, 0, 1, 1 >>, << 0, 0, 0, 0, 1 >> >>,
      hop_eng |-> << << 1, 0 >>, << 0, 2 >> >>,
      is_locked |-> FALSE],
     [num_orb |-> 1,
      hop_ind |-> << << 0, 1, 0, 0, 0 >> >>,
      hop_eng |-> << << 3, 1 >> >>,
      is_locked |-> FALSE]}

\* two cells of the ladder (4 orbitals); three cells of the chain in a row
\* (3 orbitals) or four in a square (4 orbitals)
SmallDims(n) ==
    IF n = 2 THEN {<< 2, 1, 1 >>} ELSE {<< 1, 3, 1 >>, << 1, 2, 2 >>}

Init == \E pc \in SmallCells : NoObject(pc)

ConstructSmall ==
    Construct(SmallDims(prim_cell.num_orb), {<< TRUE, FALSE, FALSE >>},
              {<< >>, << << 0, 0, 0, 0 >> >>})

Next ==
    \/ ConstructSmall
    \/ AddVacancy
    \/ AddVacancies
    \/ SetVacancies
    \/ SyncArray
    \/ OrbIdSc2Pc
    \/ OrbIdPc2Sc
    \/ Lock

Spec == Init /\ [][Next]_vars

(***************************************************************************)
(* SpecIndex: index conversion on supercells without vacancies.            *)
(***************************************************************************)
IndexCells ==
    {[num_orb |-> n,
      hop_ind |-> << << 1, 0, 0, 0, 0 >> >>,
      hop_eng |-> << << 1, 0 >> >>,
      is_locked |-> FALSE] : n \in 1..2}

IndexDims == {<< a, b, c >> : a \in 1..MaxDim, b \in 1..2, c \in 1..2}

InitIndex == \E pc \in IndexCells : NoObject(pc)

ConstructIndex ==
    Construct(IndexDims, {<< FALSE, FALSE, FALSE >>}, {<< >>})

NextIndex ==
    \/ ConstructIndex
    \/ OrbIdSc2Pc
    \/ OrbIdPc2Sc

SpecIndex == InitIndex /\ [][NextIndex]_vars

(***************************************************************************)
(* Index conversion.                                                       *)
(***************************************************************************)
\* number of orbital sites of the supercell, vacant or not
TotalSites == prim_cell.num_orb * dim[1] * dim[2] * dim[3]

\* C1: for every live supercell index i in 0..num_orb_sc-1, the
\* primitive-cell index that orb_id_sc2pc gives for i is taken back to i by
\* orb_id_pc2sc, whatever vacancies were set and whether or not the arrays
\* were synchronized before.
C1_RoundTrip ==
    phase = "ready" =>
        \A i \in 0..(num_orb_sc(Self) - 1) :
            LET a == orb_id_sc2pc(Self, i)
                b == orb_id_pc2sc(a.self, a.ret)
            IN  /\ a.err = NoErr
                /\ b.err = NoErr
                /\ b.ret = i

\* orb_id_sc2pc has answered for a live index above a vacancy, on a
\* supercell with two vacancies, and orb_id_pc2sc takes the answer back
C1_Witness ==
    /\ phase = "ready"
    /\ last.op = "orb_id_sc2pc"
    /\ last.err = NoErr
    /\ Len(vacancy_list) = 2
    /\ last.arg >= 0
    /\ _id_pc2sc(dim, prim_cell.num_orb, last.ret) > last.arg
    /\ orb_id_pc2sc(Self, last.ret).ret = last.arg

\* the two counts of C2 on an object
CountsAgree(s) ==
    /\ Len(s.orb_id_pc) + Len(s.vacancy_list)
           = num_orb_pc(s) * s.dim[1] * s.dim[2] * s.dim[3]
    /\ Len(s.orb_id_pc) = num_orb_sc(s)

\* the calls that synchronize the arrays whatever their arguments
SyncingOps == {"sync_array", "orb_id_sc2pc", "orb_id_pc2sc"}

\* C2: after any sequence of vacancy operations followed by a syncing
\* call, len(orb_id_pc) plus the number of vacancies is
\* num_orb_pc * prod(dim), and len(orb_id_pc) is num_orb_sc.  Stated for the
\* states a syncing call has just left and for sync_array called on any
\* reachable state.
C2_CountsAfterSync ==
    phase = "ready" =>
        /\ last.op \in SyncingOps => CountsAgree(Self)
        /\ CountsAgree(sync_array(Self, FALSE))
        /\ CountsAgree(sync_array(Self, TRUE))

\* sync_array has run on a supercell with two vacancies and two orbitals
\* fewer are live
C2_Witness ==
    /\ phase = "ready"
    /\ last.op = "sync_array"
    /\ Len(vacancy_list) = 2
    /\ Len(orb_id_pc) = TotalSites - 2
    /\ num_orb_sc(Self) = TotalSites - 2

\* C10: with zero vacancies orb_id_pc2sc(a, b, c, orbital) is
\* ((a * dim_b + b) * dim_c + c) * num_orb_pc + orbital, a bijection from
\* the valid indices onto 0..total-1, and orb_id_sc2pc is its inverse.
C10_RowMajorBijection ==
    (phase = "ready" /\ vacancy_list = << >>) =>
        /\ \A id \in ValidIds :
              LET r == orb_id_pc2sc(Self, id)
              IN  /\ r.err = NoErr
                  /\ r.ret = ((id[1] * dim[2] + id[2]) * dim[3] + id[3])
                                 * prim_cell.num_orb + id[4]
                  /\ orb_id_sc2pc(Self, r.ret).ret = id
        /\ {orb_id_pc2sc(Self, id).ret : id \in ValidIds} = 0..(TotalSites - 1)
        /\ Cardinality(ValidIds) = TotalSites
        /\ \A i \in 0..(TotalSites - 1) :
              LET r == orb_id_sc2pc(Self, i)
              IN  /\ r.err = NoErr
                  /\ r.ret \in ValidIds
                  /\ orb_id_pc2sc(Self, r.ret).ret = i
        /\ (last.op = "orb_id_pc2sc" /\ last.err = NoErr) =>
              last.ret = ((last.arg[1] * dim[2] + last.arg[2]) * dim[3]
                              + last.arg[3]) * prim_cell.num_orb + last.arg[4]

\* orb_id_pc2sc has answered 23 = ((2 * 2 + 1) * 2 + 1) * 2 + 1 for an
\* index with every component non-zero on a 3 x 2 x 2 supercell of a
\* two-orbital cell
C10_Witness ==
    /\ phase = "ready"
    /\ vacancy_list = << >>
    /\ last.op = "orb_id_pc2sc"
    /\ last.err = NoErr
    /\ dim = << 3, 2, 2 >>
    /\ prim_cell.num_orb = 2
    /\ last.arg = << 2, 1, 1, 1 >>
    /\ last.ret = 23

(***************************************************************************)
(* SpecMerge: hopping terms added to a supercell without vacancies and     *)
(* merged by get_hop().                                                    *)
(***************************************************************************)
\* a chain (1 orbital per cell) and a ladder (2 orbitals per cell)
MergeCells ==
    {[num_orb |-> 1,
      hop_ind |-> << << 1, 0, 0, 0, 0 >> >>,
      hop_eng |-> << << 1, 0 >> >>,
      is_locked |-> FALSE],
     [num_orb |-> 2,
      hop_ind |-> << << 1, 0, 0, 0, 1 >>, << 0, 0, 0, 0, 1 >> >>,
      hop_eng |-> << << 1, 0 >>, << 0, 2 >> >>,
      is_locked |-> FALSE]}

MergeDims(n) == IF n = 1 THEN {<< 3, 1, 1 >>} ELSE {<< 2, 1, 1 >>}

\* cell offsets handed to add_hopping: two legal ones and one too short
MergeRns == {<< 0, 0, 0 >>, << 1, 0, 0 >>, << 0 >>}

\* orbital pairs handed to add_hopping: neighbours in both directions, the
\* two ends, a diagonal pair and one out of range
MergePairs ==
    {<< 0, 1 >>, << 1, 0 >>, << 0, num_orb_sc(Self) - 1 >>, << 0, 0 >>,
     << 0, num_orb_sc(Self) >>}

MergeEngs == {<< 0, 1 >>, << 2, 0 >>}

InitMerge == \E pc \in MergeCells : NoObject(pc)

ConstructMerge ==
    Construct(MergeDims(prim_cell.num_orb),
              {<< FALSE, FALSE, FALSE >>, << TRUE, FALSE, FALSE >>}, {<< >>})

AddHoppingMerge == AddHopping(MergeRns, MergePairs, MergeEngs)

GetHopMerge == GetHop({"auto"})

NextMerge ==
    \/ ConstructMerge
    \/ AddHoppingMerge
    \/ GetHopMerge
    \/ Lock

SpecMerge == InitMerge /\ [][NextMerge]_vars

(***************************************************************************)
(* SpecTrim: vacancies, added hopping terms and trim() on short chains.    *)
(***************************************************************************)
\* a chain of 1 orbital per cell and one of 2 orbitals per cell, each with
\* one hopping term to the next cell
TrimCells ==
    {[num_orb |-> 1,
      hop_ind |-> << << 1, 0, 0, 0, 0 >> >>,
      hop_eng |-> << << 1, 0 >> >>,
      is_locked |-> FALSE],
     [num_orb |-> 2,
      hop_ind |-> << << 1, 0, 0, 0, 1 >> >>,
      hop_eng |-> << << 1, 0 >> >>,
      is_locked |-> FALSE]}

TrimDims(n) == IF n = 1 THEN {<< 3, 1, 1 >>, << 4, 1, 1 >>} ELSE {<< 2, 1, 1 >>}

InitTrim == \E pc \in TrimCells : NoObject(pc)

ConstructTrim ==
    Construct(TrimDims(prim_cell.num_orb),
              {<< FALSE, FALSE, FALSE >>, << TRUE, FALSE, FALSE >>}, {<< >>})

\* one term between the two ends of the chain
AddHoppingTrim ==
    AddHopping({<< 0, 0, 0 >>}, {<< 0, num_orb_sc(Self) - 1 >>}, {<< 2, 0 >>})

GetHopTrim == GetHop({"auto"})

NextTrim ==
    \/ ConstructTrim
    \/ AddVacancy
    \/ AddHoppingTrim
    \/ GetHopTrim
    \/ Trim
    \/ Lock

SpecTrim == InitTrim /\ [][NextTrim]_vars

(***************************************************************************)
(* Merge and trim.                                                         *)
(***************************************************************************)
\* C6: the modifier merge of get_hop() is idempotent: running the merge
\* loop a second time with the same modifier on the arrays the first merge
\* produced (the arrays get_hop() has just returned) gives the same
\* (hop_i, hop_j, hop_v).
C6_MergeIdempotent ==
    (phase = "ready" /\ last.op = "get_hop") =>
        apply_hop_modifier(last.ret, hop_modifier) = last.ret

\* the orbitals that are bra or ket of a term
Endpoints(h) ==
    {h.hop_i[k] : k \in 1..Len(h.hop_i)} \cup {h.hop_j[k] : k \in 1..Len(h.hop_j)}

\* C9: after trim() on an unlocked supercell every orbital that was live
\* before the call and is neither bra nor ket of a term of get_hop() is a
\* vacancy, and every orbital that is an endpoint is still live.  The
\* unprimed side is the object before the call, the primed side after it.
C9_TrimRemovesDangling ==
    [][(last'.op = "trim" /\ last'.err = NoErr) =>
          LET g == get_hop(Self, "auto")
              live == g.self.orb_id_pc
              ends == Endpoints(g.ret)
          IN  \A k \in 1..Len(live) :
                 IF (k - 1) \in ends
                 THEN /\ Contains(orb_id_pc', live[k])
                      /\ ~Contains(vacancy_list', live[k])
                 ELSE /\ Contains(vacancy_list', live[k])
                      /\ ~Contains(orb_id_pc', live[k])]_vars

\* trim() has run on the free chain of three orbitals whose middle orbital
\* had been made a vacancy: both neighbours are vacancies now
C9_Witness ==
    /\ phase = "ready"
    /\ last.op = "trim"
    /\ last.err = NoErr
    /\ prim_cell.num_orb = 1
    /\ dim = << 3, 1, 1 >>
    /\ pbc = << 0, 0, 0 >>
    /\ vacancy_list = << << 1, 0, 0, 0 >>, << 0, 0, 0, 0 >>, << 2, 0, 0, 0 >> >>
    /\ orb_id_pc = << >>

(***************************************************************************)
(* SpecLock: every mutator and get_hop() on a short chain, before and      *)
(* after the object is locked.                                             *)
(***************************************************************************)
LockCells ==
    {[num_orb |-> 1,
      hop_ind |-> << << 1, 0, 0, 0, 0 >> >>,
      hop_eng |-> << << 1, 0 >> >>,
      is_locked |-> FALSE]}

InitLock == \E pc \in LockCells : NoObject(pc)

ConstructLock ==
    Construct({<< 3, 1, 1 >>}, {<< FALSE, FALSE, FALSE >>},
              {<< >>, << << 1, 0, 0, 0 >> >>})

\* a term between the two ends of the chain, and a diagonal one
AddHoppingLock ==
    AddHopping({<< 0, 0, 0 >>},
               {<< 0, num_orb_sc(Self) - 1 >>, << 0, 0 >>}, {<< 2, 0 >>})

GetHopLock == GetHop({"auto"})

\* no list, one vacancy, a vacancy followed by an index that is too short
LockLists ==
    {<< >>, << << 0, 0, 0, 0 >> >>, << << 2, 0, 0, 0 >>, << 0, 0, 0 >> >>}

AddVacanciesLock == AddVacanciesOf(LockLists)

SetVacanciesLock == SetVacanciesOf(LockLists)

NextLock ==
    \/ ConstructLock
    \/ AddVacancy
    \/ AddVacanciesLock
    \/ SetVacanciesLock
    \/ AddHoppingLock
    \/ SetOrbPosModifier
    \/ Trim
    \/ Lock
    \/ GetHopLock

SpecLock == InitLock /\ [][NextLock]_vars

(***************************************************************************)
(* Locking.                                                                *)
(***************************************************************************)
\* the methods that change the object
Mutators ==
    {"add_vacancy", "add_vacancies", "set_vacancies", "add_hopping",
     "set_orb_pos_modifier", "trim"}

\* C11: once the instance is locked, every mutator (add_vacancy,
\* add_vacancies, set_vacancies, add_hopping, set_orb_pos_modifier, trim)
\* fails with SCLockError, whatever its arguments.  The unprimed side is
\* the object before the call.
C11_LockedMutatorsFail ==
    [][(is_locked /\ last'.op \in Mutators) =>
          last'.err = [kind |-> "SCLockError"]]_vars

\* a mutator has been called with arguments that are themselves illegal on
\* a locked object that has a vacancy, and SCLockError was raised
C11_Witness ==
    /\ phase = "ready"
    /\ is_locked
    /\ last.op = "add_hopping"
    /\ last.arg = << << 0, 0, 0 >>, 0, 0 >>
    /\ last.err = [kind |-> "SCLockError"]
    /\ Len(vacancy_list) > 0

\* the index arrays as an accessor reads them: every accessor calls
\* sync_array() first
ReadArrays ==
    LET s == sync_array(Self, FALSE)
    IN  << s.vac_id_pc, s.vac_id_sc, s.orb_id_pc >>

\* C12: a locked instance is immutable: a mutation attempt on a locked
\* instance (add_vacancy, add_vacancies, set_vacancies, add_hopping,
\* set_orb_pos_modifier, trim) leaves the vacancy set, num_orb_sc, the index
\* arrays read by the accessors and the hopping modifier as they were
\* before the call.
C12_LockedImmutable ==
    [][(is_locked /\ last'.op \in Mutators) =>
          /\ vacancy_list' = vacancy_list
          /\ num_orb_sc(Self)' = num_orb_sc(Self)
          /\ ReadArrays' = ReadArrays
          /\ hop_modifier' = hop_modifier]_vars


(***************************************************************************)
(* Batches of vacancies.                                                   *)
(***************************************************************************)
\* the errors with which add_vacancies rejects an element of its list
VacErrors == {"VacIDPCLenError", "VacIDPCIndexError"}

\* C13: a batch operation (add_vacancies, set_vacancies) that fails
\* validation on some element aborts the whole batch: the vacancy set and
\* num_orb_sc after the failed call equal those before it, none of the
\* valid elements before the offending one is added.
C13_FailedBatchAborts ==
    [][(last'.op \in {"add_vacancies", "set_vacancies"}
            /\ last'.err.kind \in VacErrors) =>
          /\ vacancy_list' = vacancy_list
          /\ num_orb_sc(Self)' = num_orb_sc(Self)]_vars


(***************************************************************************)
(* SpecBatch: add_vacancies with every kind of rejected element, the list  *)
(* recorded with the call.                                                 *)
(***************************************************************************)
\* the ladder: two orbitals per cell
BatchCells ==
    {[num_orb |-> 2,
      hop_ind |-> << << 1, 0, 0, 1, 1 >>, << 0, 0, 0, 0, 1 >> >>,
      hop_eng |-> << << 1, 0 >>, << 0, 2 >> >>,
      is_locked |-> FALSE]}

InitBatch == \E pc \in BatchCells : NoObject(pc)

ConstructBatch ==
    Construct({<< 2, 1, 1 >>, << 1, 2, 2 >>}, {<< FALSE, FALSE, FALSE >>},
              {<< >>})

\* elements of the lists: the first and the last index of the supercell;
\* too short, too long; a, b, c, orbital out of range, alone and together
BatchElems ==
    {<< 0, 0, 0, 0 >>,
     << dim[1] - 1, dim[2] - 1, dim[3] - 1, prim_cell.num_orb - 1 >>,
     << 0, 0, 0 >>,
     << 0, 0, 0, 0, 0 >>,
     << dim[1], 0, 0, 0 >>,
     << 0, -1, 0, 0 >>,
     << 0, 0, 0, prim_cell.num_orb >>,
     << 0, 0, dim[3], prim_cell.num_orb >>,
     << -1, dim[2], 0, 0 >>}

\* add_vacancies(vacancies, sync_array)
AddVacanciesBatch ==
    /\ phase = "ready"
    /\ \E vs \in Batches(BatchElems), do_sync \in BOOLEAN :
          \E r \in {add_vacancies(Self, vs, do_sync)} :
              /\ Len(r.self.vacancy_list) <= MaxVac
              /\ Becomes(r.self)
              /\ last' = Call("add_vacancies", vs, r.err, << >>)
    /\ UNCHANGED phase

NextBatch == ConstructBatch \/ AddVacanciesBatch \/ SyncArray \/ Lock

SpecBatch == InitBatch /\ [][NextBatch]_vars

\* the size of component i (0, 1, 2: a, b, c; 3: orbital) of an index
AxisSize(i) == IF i < 3 THEN dim[i + 1] ELSE prim_cell.num_orb

\* the components of a 4-component index that are out of range
OutOfRange(v) == {i \in 0..3 : ~(0 <= v[i + 1] /\ v[i + 1] < AxisSize(i))}

\* the positions of the invalid elements of a list
InvalidAt(vs) ==
    {k \in 1..Len(vs) : Len(vs[k]) # 4 \/ OutOfRange(vs[k]) # {}}

\* the error for an invalid element
Rejection(v) ==
    IF Len(v) # 4 THEN [kind |-> "VacIDPCLenError", id_pc |-> v]
    ELSE [kind |-> "VacIDPCIndexError", i_dim |-> MinOfSet(OutOfRange(v)),
          id_pc |-> v]

\* C14: add_vacancies (on an instance that is not locked, see C11) rejects
\* the first element of the list that is invalid: with VacIDPCLenError if
\* it does not have 4 components, otherwise with VacIDPCIndexError carrying
\* that element and the lowest-numbered component (a, b, c, orbital) that
\* is out of range; a list of only valid elements is never rejected.
C14_FirstInvalidRejected ==
    [][(~is_locked /\ last'.op = "add_vacancies") =>
          last'.err = IF InvalidAt(last'.arg) = {} THEN NoErr
                      ELSE Rejection(last'.arg[MinOfSet(InvalidAt(last'.arg))])]_vars

\* a list whose first element is valid and whose second has both c and the
\* orbital out of range was rejected for c (component 2)
C14_Witness ==
    /\ phase = "ready"
    /\ ~is_locked
    /\ last.op = "add_vacancies"
    /\ last.arg = << << 0, 0, 0, 0 >>, << 0, 0, dim[3], prim_cell.num_orb >> >>
    /\ last.err = [kind |-> "VacIDPCIndexError", i_dim |-> 2,
                   id_pc |-> << 0, 0, dim[3], prim_cell.num_orb >>]


(***************************************************************************)
(* The converters.                                                         *)
(***************************************************************************)
\* C15: orb_id_sc2pc(id_sc) fails with IDSCIndexError for every integer
\* id_sc outside [0, num_orb_sc), every negative one included, and returns
\* a primitive-cell index only for id_sc inside that range.
C15_ScIndexRange ==
    last.op = "orb_id_sc2pc" =>
        IF last.arg \in 0..(num_orb_sc(Self) - 1)
        THEN last.err = NoErr /\ last.ret \in ValidIds
        ELSE last.err = [kind |-> "IDSCIndexError", id_sc |-> last.arg]


\* C16: for every primitive-cell index within bounds, orb_id_pc2sc fails
\* with IDPCVacError if and only if the index is in the current vacancy
\* set, and otherwise returns a value in [0, num_orb_sc); an index out of
\* bounds fails with the index-range error, never with the vacancy error.
C16_VacErrorIffVacancy ==
    last.op = "orb_id_pc2sc" =>
        IF last.arg \in ValidIds
        THEN IF Contains(vacancy_list, last.arg)
             THEN last.err = [kind |-> "IDPCVacError", id_pc |-> last.arg]
             ELSE last.err = NoErr /\ last.ret \in 0..(num_orb_sc(Self) - 1)
        ELSE /\ last.err.kind # "IDPCVacError"
             /\ Len(last.arg) = 4 => last.err.kind = "IDPCIndexError"

\* the index of a vacancy was looked up while another index is a vacancy
\* too, and the vacancy error was raised
C16_Witness ==
    /\ phase = "ready"
    /\ last.op = "orb_id_pc2sc"
    /\ Len(vacancy_list) = 2
    /\ last.arg = vacancy_list[2]
    /\ last.err.kind = "IDPCVacError"


(***************************************************************************)
(* SpecArray: the batched converters.                                      *)
(***************************************************************************)
\* the chain: one orbital per cell
ArrayCells ==
    {[num_orb |-> 1,
      hop_ind |-> << << 0, 1, 0, 0, 0 >> >>,
      hop_eng |-> << << 3, 1 >> >>,
      is_locked |-> FALSE]}

InitArray == \E pc \in ArrayCells : NoObject(pc)

ConstructArray ==
    Construct({<< 1, 3, 1 >>}, {<< FALSE, FALSE, FALSE >>},
              {<< >>, << << 0, 1, 0, 0 >> >>})

\* int64 arrays of at most two supercell indices: the live ones, the first
\* that is too large, and -1
ScArrays == Batches(-1..num_orb_sc(Self))

\* (n, 4) int32 arrays of at most two rows: the indices of the supercell
\* and rows with a cell or an orbital out of range; (n, 3) arrays
PcArrays ==
    Batches(ValidIds \cup {<< 0, dim[2], 0, 0 >>, << 0, 0, 0, prim_cell.num_orb >>})
        \cup {<< << 0, 0, 0 >> >>, << << 0, 1, 0 >>, << 0, 0, 0 >> >>}

OrbIdSc2PcArrayAll == OrbIdSc2PcArray(ScArrays)

OrbIdPc2ScArrayAll == OrbIdPc2ScArray(PcArrays)

NextArray ==
    ConstructArray \/ AddVacancy \/ OrbIdSc2PcArrayAll \/ OrbIdPc2ScArrayAll

SpecArray == InitArray /\ [][NextArray]_vars

\* the single-element lookups of the elements of the last batch
Singles ==
    [k \in 1..Len(last.arg) |->
        IF last.op = "orb_id_sc2pc_array" THEN orb_id_sc2pc(Self, last.arg[k])
        ELSE orb_id_pc2sc(Self, last.arg[k])]

\* C17: the batched converters agree with the single-element ones:
\* orb_id_sc2pc_array / orb_id_pc2sc_array fail if and only if the
\* single-element lookup fails for at least one element of the batch, the
\* error is the one for the first failing element in batch order, and on
\* success element k of the result is the single-element lookup of
\* element k.
C17_BatchedAgree ==
    last.op \in {"orb_id_sc2pc_array", "orb_id_pc2sc_array"} =>
        LET failing == {k \in 1..Len(last.arg) : Singles[k].err # NoErr}
        IN  IF failing = {}
            THEN /\ last.err = NoErr
                 /\ last.ret = [k \in 1..Len(last.arg) |-> Singles[k].ret]
            ELSE last.err = Singles[MinOfSet(failing)].err


(***************************************************************************)
(* SpecRead: vacancies changed with and without synchronization, and every *)
(* read operation.                                                         *)
(***************************************************************************)
\* the ladder, with on-site energies, positions (twice the fractional
\* coordinates), a cubic lattice and an origin
ReadCells ==
    {[num_orb |-> 2,
      hop_ind |-> << << 1, 0, 0, 1, 1 >>, << 0, 0, 0, 0, 1 >> >>,
      hop_eng |-> << << 1, 0 >>, << 0, 2 >> >>,
      orb_eng |-> << 5, 7 >>,
      orb_pos |-> << << 0, 0, 0 >>, << 0, 1, 0 >> >>,
      lat_vec |-> << << 2, 0, 0 >>, << 0, 2, 0 >>, << 0, 0, 2 >> >>,
      origin |-> << 0, 0, 1 >>,
      is_locked |-> FALSE]}

InitRead == \E pc \in ReadCells : NoObject(pc)

ConstructRead ==
    Construct({<< 2, 1, 1 >>}, {<< TRUE, FALSE, FALSE >>},
              {<< >>, << << 1, 0, 0, 0 >> >>})

\* lists for add_vacancies and set_vacancies: empty, one element, two
\* elements, and one that is rejected at its second element
ReadLists ==
    {<< >>,
     << << 0, 0, 0, 0 >> >>,
     << << 1, 0, 0, 1 >>, << 0, 0, 0, 0 >> >>,
     << << 0, 0, 0, 1 >>, << 0, 0, 0 >> >>}

AddVacanciesRead == AddVacanciesOf(ReadLists)

SetVacanciesRead == SetVacanciesOf(ReadLists)

\* batches of at most two supercell indices
ReadScArrays == Batches(-1..num_orb_sc(Self))

\* batches of at most two primitive-cell indices
ReadPcArrays == Batches(ValidIds \cup {<< 0, 0, 0, prim_cell.num_orb >>})

OrbIdSc2PcArrayRead == OrbIdSc2PcArray(ReadScArrays)

OrbIdPc2ScArrayRead == OrbIdPc2ScArray(ReadPcArrays)

GetHopRead == GetHop({"auto", "False"})

GetDrRead == GetDr({"auto", "False"})

NextRead ==
    \/ ConstructRead
    \/ AddVacancy
    \/ AddVacanciesRead
    \/ SetVacanciesRead
    \/ SetOrbPosModifier
    \/ OrbIdSc2Pc
    \/ OrbIdPc2Sc
    \/ OrbIdSc2PcArrayRead
    \/ OrbIdPc2ScArrayRead
    \/ GetOrbEng
    \/ GetOrbPos
    \/ GetHopRead
    \/ GetDrRead

SpecRead == InitRead /\ [][NextRead]_vars

\* the read operations
Readers ==
    {"orb_id_sc2pc", "orb_id_pc2sc", "orb_id_sc2pc_array",
     "orb_id_pc2sc_array", "get_orb_eng", "get_orb_pos", "get_hop", "get_dr"}

\* the object with vac_id_pc, vac_id_sc and orb_id_pc rebuilt from the
\* current vacancy list
Current == sync_array(Self, TRUE)

\* the read operation op with argument arg on the object s
ReadOn(s, op, arg) ==
    CASE op = "orb_id_sc2pc" -> orb_id_sc2pc(s, arg)
      [] op = "orb_id_pc2sc" -> orb_id_pc2sc(s, arg)
      [] op = "orb_id_sc2pc_array" -> orb_id_sc2pc_array(s, arg)
      [] op = "orb_id_pc2sc_array" -> orb_id_pc2sc_array(s, arg)
      [] op = "get_orb_eng" -> get_orb_eng(s)
      [] op = "get_orb_pos" -> get_orb_pos(s)
      [] op = "get_hop" -> get_hop(s, arg)
      [] op = "get_dr" -> get_dr(s, arg)

\* C18: after any sequence of add_vacancy / add_vacancies / set_vacancies
\* calls, with or without sync_array, every read operation (orb_id_sc2pc,
\* orb_id_pc2sc, their batched variants, get_orb_eng, get_orb_pos, get_hop,
\* get_dr) returns the result computed from the current vacancy set.
C18_ReadsAreCurrent ==
    last.op \in Readers =>
        \E r \in {ReadOn(Current, last.op, last.arg)} :
            last.err = r.err /\ last.ret = r.ret

\* a vacancy was added without synchronization (the arrays were those of
\* the full supercell), then get_orb_eng() was called and returned the
\* energies of the three live orbitals
C18_Witness ==
    /\ phase = "ready"
    /\ last.op = "get_orb_eng"
    /\ vacancy_list = << << 0, 0, 0, 1 >> >>
    /\ last.ret = << 5, 5, 7 >>


(***************************************************************************)
(* The merge of the hopping modifier.                                      *)
(***************************************************************************)
\* the algorithm get_hop(use_fast) takes
IsFast(use_fast) ==
    IF use_fast = "auto" THEN Len(vacancy_list) = 0 ELSE use_fast = "True"

\* the arrays of get_hop(use_fast) before the modifier is applied
RawHop(use_fast) ==
    IF IsFast(use_fast) THEN _init_hop_fast(Current) ELSE _init_hop(Current)

\* the supercell offset of each of these terms
RawRn(use_fast) ==
    IF IsFast(use_fast) THEN _init_hop_fast_rn(Current)
    ELSE _init_hop_rn(Current)

\* the modifier entry m is the term from bra to ket at offset rn, or the
\* term from ket to bra at the negated offset: the same physical term
SamePhysicalTerm(m, bra, ket, rn) ==
    \/ m.bra = bra /\ m.ket = ket /\ m.rn = rn
    \/ m.bra = ket /\ m.ket = bra /\ m.rn = VecNeg(rn)

\* C19: in the merge of get_hop(), a modifier entry overwrites a stored
\* term only when it is the same physical term (from bra to ket at the
\* same cell offset, or from ket to bra at the negated offset): a stored
\* term that no modifier entry denotes keeps its energy, also when an entry
\* has its (bra, ket) at a different offset.
C19_OverwriteOnlySameTerm ==
    (phase = "ready" /\ last.op = "get_hop") =>
        \E raw \in {RawHop(last.arg)}, rn \in {RawRn(last.arg)} :
            \A k \in 1..Len(raw.hop_i) :
                (\A n \in 1..Len(hop_modifier) :
                    ~SamePhysicalTerm(hop_modifier[n], raw.hop_i[k],
                                      raw.hop_j[k], rn[k]))
                    => last.ret.hop_v[k] = raw.hop_v[k]


\* the stored terms that have the (bra, ket) of the modifier entry m, and
\* those that have its (ket, bra)
SameSlots(raw, m) ==
    {k \in 1..Len(raw.hop_i) : raw.hop_i[k] = m.bra /\ raw.hop_j[k] = m.ket}

ConjSlots(raw, m) ==
    {k \in 1..Len(raw.hop_i) : raw.hop_i[k] = m.ket /\ raw.hop_j[k] = m.bra}

\* which of the three things the merge does for the entry m
MergeKind(raw, m) ==
    IF SameSlots(raw, m) # {} THEN "same"
    ELSE IF ConjSlots(raw, m) # {} THEN "conj"
    ELSE "new"

\* the slot the entry m is written to, and the energy written
MergeSlot(raw, m) ==
    IF MergeKind(raw, m) = "same" THEN MinOfSet(SameSlots(raw, m))
    ELSE MinOfSet(ConjSlots(raw, m))

MergeEnergy(raw, m) ==
    IF MergeKind(raw, m) = "same" THEN m.eng ELSE Conj(m.eng)

\* the entries of the modifier that match no stored term, in order
Unmatched(raw, mod) ==
    LET new(m) == MergeKind(raw, m) = "new"
    IN  SelectSeq(mod, new)

HopCells ==
    {[num_orb |-> 1,
      hop_ind |-> << << 1, 0, 0, 0, 0 >> >>,
      hop_eng |-> << << 1, 0 >> >>,
      is_locked |-> FALSE]}

InitHop == \E pc \in HopCells : NoObject(pc)

ConstructHop ==
    Construct({<< 3, 1, 1 >>}, {<< TRUE, FALSE, FALSE >>},
              {<< >>, << << 1, 0, 0, 0 >> >>})

\* cell offsets: of three components, of two, of one
HopRns == {<< 0, 0, 0 >>, << 1, 0 >>, << 0 >>}

\* orbital pairs: inside the supercell, equal, and with either index or
\* both below 0 or at num_orb_sc
HopPairs ==
    {<< 0, 1 >>, << 0, 0 >>, << num_orb_sc(Self) - 1, 0 >>, << -1, 0 >>,
     << 0, num_orb_sc(Self) >>, << num_orb_sc(Self), num_orb_sc(Self) >>}

HopEngs == {<< 2, 0 >>}

AddHoppingHop == AddHopping(HopRns, HopPairs, HopEngs)

NextHop == ConstructHop \/ AddVacancy \/ AddHoppingHop \/ Lock

SpecHop == InitHop /\ [][NextHop]_vars

\* the cell offset with the third component filled in
FullRn(rn) == IF Len(rn) = 2 THEN << rn[1], rn[2], 0 >> ELSE rn

\* the modifier mod with the term (rn, bra, ket) recorded with energy e:
\* the energy of the key is e, every other entry is as it was
Recorded(mod, rn, bra, ket, e) ==
    IF \E n \in 1..Len(mod) :
          mod[n].rn = rn /\ mod[n].bra = bra /\ mod[n].ket = ket
    THEN [n \in 1..Len(mod) |->
             IF mod[n].rn = rn /\ mod[n].bra = bra /\ mod[n].ket = ket
             THEN [rn |-> rn, bra |-> bra, ket |-> ket, eng |-> e]
             ELSE mod[n]]
    ELSE Append(mod, [rn |-> rn, bra |-> bra, ket |-> ket, eng |-> e])

\* C21: add_hopping(rn, orb_i, orb_j, energy) on an unlocked supercell (rn
\* a cell offset of 2 or 3 components) fails with SCOrbIndexError if orb_i
\* or orb_j is outside [0, num_orb_sc) and with SCHopDiagonalError if
\* rn = (0, 0, 0) and orb_i = orb_j; in every failing case the hopping
\* modifier is unchanged, and in every other case the term is recorded in
\* the modifier.
C21_AddHoppingValidates ==
    [][(~is_locked /\ last'.op = "add_hopping"
            /\ Len(last'.arg[1]) \in {2, 3}) =>
          LET rn == FullRn(last'.arg[1])
              orb_i == last'.arg[2]
              orb_j == last'.arg[3]
              inside == 0..(num_orb_sc(Self) - 1)
          IN  /\ last'.err # NoErr => hop_modifier' = hop_modifier
              /\ IF orb_i \notin inside \/ orb_j \notin inside
                 THEN last'.err.kind = "SCOrbIndexError"
                 ELSE IF rn = << 0, 0, 0 >> /\ orb_i = orb_j
                 THEN last'.err.kind = "SCHopDiagonalError"
                 ELSE /\ last'.err = NoErr
                      /\ \E e \in HopEngs :
                            hop_modifier' =
                                Recorded(hop_modifier, rn, orb_i, orb_j, e)]_vars

\* on a chain with a vacancy (num_orb_sc = 2) the term between orbital 0
\* and orbital 2 was rejected, and the modifier holds a term added before
C21_Witness ==
    /\ phase = "ready"
    /\ ~is_locked
    /\ Len(vacancy_list) = 1
    /\ last.op = "add_hopping"
    /\ last.arg = << << 1, 0 >>, 0, 2 >>
    /\ last.err = [kind |-> "SCOrbIndexError", orb |-> 2]
    /\ Len(hop_modifier) = 1


(***************************************************************************)
(* SpecSet: set_vacancies after other vacancies, its arguments recorded    *)
(* with the call.                                                          *)
(***************************************************************************)
\* the ladder: two orbitals per cell
SetCells ==
    {[num_orb |-> 2,
      hop_ind |-> << << 1, 0, 0, 1, 1 >>, << 0, 0, 0, 0, 1 >> >>,
      hop_eng |-> << << 1, 0 >>, << 0, 2 >> >>,
      is_locked |-> FALSE]}

InitSet == \E pc \in SetCells : NoObject(pc)

ConstructSet ==
    Construct({<< 2, 1, 1 >>}, {<< TRUE, FALSE, FALSE >>},
              {<< >>, << << 1, 0, 0, 0 >> >>})

\* set_vacancies(vacancies, sync_array) with lists of at most two elements,
\* among them lists with an element twice and with an element too short
SetVacanciesSet ==
    /\ phase = "ready"
    /\ \E vs \in Batches(BatchIds), do_sync \in BOOLEAN :
          \E r \in {set_vacancies(Self, vs, do_sync)} :
              /\ Len(r.self.vacancy_list) <= MaxVac
              /\ Becomes(r.self)
              /\ last' = Call("set_vacancies",
                              [vacancies |-> vs, sync_array |-> do_sync],
                              r.err, << >>)
    /\ UNCHANGED phase

NextSet == ConstructSet \/ AddVacancy \/ SetVacanciesSet \/ SyncArray \/ Lock

SpecSet == InitSet /\ [][NextSet]_vars

\* the elements of a list
Elements(vs) == {vs[k] : k \in 1..Len(vs)}

\* the vacancy list holds exactly the distinct elements of vs
HoldsExactly(vs) ==
    /\ Elements(vacancy_list) = Elements(vs)
    /\ Len(vacancy_list) = Cardinality(Elements(vs))

\* the arrays are those of a construction without vacancies
AsConstructedEmpty ==
    /\ vac_id_pc = << >>
    /\ vac_id_sc = << >>
    /\ orb_id_pc = build_orb_id_pc(dim, prim_cell.num_orb, << >>)
    /\ num_orb_sc(Self) = prim_cell.num_orb * dim[1] * dim[2] * dim[3]

\* C22 as stated: set_vacancies(V) on an unlocked instance resets the
\* vacancy set to exactly the distinct elements of V whatever the previous
\* vacancy set was; with V empty, vac_id_pc and vac_id_sc are cleared and
\* orb_id_pc and num_orb_sc equal their values right after a construction
\* without vacancies.
C22_SetVacanciesResets ==
    (phase = "ready" /\ ~is_locked /\ last.op = "set_vacancies"
        /\ InvalidAt(last.arg.vacancies) = {}) =>
        /\ last.err = NoErr
        /\ HoldsExactly(last.arg.vacancies)
        /\ last.arg.vacancies = << >> => AsConstructedEmpty

\* C22 (amended): as stated for the vacancy set and num_orb_sc; with V
\* empty the arrays vac_id_pc, vac_id_sc and orb_id_pc are those of a
\* construction without vacancies if set_vacancies was called with
\* sync_array=True (the default), and with sync_array=False they are after
\* the next synchronization.
C22_SetVacanciesResetsSynced ==
    (phase = "ready" /\ ~is_locked /\ last.op = "set_vacancies"
        /\ InvalidAt(last.arg.vacancies) = {}) =>
        /\ last.err = NoErr
        /\ HoldsExactly(last.arg.vacancies)
        /\ last.arg.vacancies = << >> =>
              /\ num_orb_sc(Self) = prim_cell.num_orb * dim[1] * dim[2] * dim[3]
              /\ last.arg.sync_array => AsConstructedEmpty
              /\ \E s \in {sync_array(Self, FALSE)} :
                    /\ s.vac_id_pc = << >>
                    /\ s.vac_id_sc = << >>
                    /\ s.orb_id_pc = build_orb_id_pc(dim, prim_cell.num_orb, << >>)

\* set_vacancies was called without synchronization and with the same
\* element twice on an object whose vacancy was another one: the arrays
\* still hold the previous vacancy, the list holds the new one once
C22_Witness ==
    /\ phase = "ready"
    /\ ~is_locked
    /\ last.op = "set_vacancies"
    /\ last.arg = [vacancies |-> << << 0, 0, 0, 0 >>, << 0, 0, 0, 0 >> >>,
                   sync_array |-> FALSE]
    /\ last.err = NoErr
    /\ vac_id_pc = << << 1, 0, 0, 0 >> >>
    /\ vacancy_list = << << 0, 0, 0, 0 >> >>

(***************************************************************************)
(* SpecDet: get_hop() called repeatedly, with both algorithms, between     *)
(* vacancy and hopping changes.                                            *)
(***************************************************************************)
GetHopDet == GetHop({"auto", "False"})

NextDet ==
    \/ ConstructTrim
    \/ AddVacancy
    \/ AddHoppingTrim
    \/ GetHopDet
    \/ SyncArray

SpecDet == InitTrim /\ [][NextDet]_vars

WithoutVacancies ==
    sync_array([Self EXCEPT !.vacancy_list = << >>], TRUE)

\* flat (uncompacted) indices of the current vacancies
VacantFlat ==
    {_id_pc2sc(dim, prim_cell.num_orb, vacancy_list[k]) :
        k \in 1..Len(vacancy_list)}

\* compacted index of the flat index f of a live orbital
Compacted(f) == f - Cardinality({v \in VacantFlat : v < f})

\* the terms of h whose bra and ket are both live, renumbered
LiveTerms(h) ==
    LET idx == [k \in 1..Len(h.hop_i) |-> k]
        live(k) == h.hop_i[k] \notin VacantFlat /\ h.hop_j[k] \notin VacantFlat
        keep == SelectSeq(idx, live)
    IN  [hop_i |-> [k \in 1..Len(keep) |-> Compacted(h.hop_i[keep[k]])],
         hop_j |-> [k \in 1..Len(keep) |-> Compacted(h.hop_j[keep[k]])],
         hop_v |-> [k \in 1..Len(keep) |-> h.hop_v[keep[k]]]]

\* C24: with a non-empty vacancy set and the general algorithm (no added
\* term), the terms get_hop() returns are exactly the terms of the same
\* supercell without vacancies whose bra and ket are both no vacancy, in
\* the same order, with both endpoints renumbered to the compacted index;
\* every hop_i and hop_j lies in [0, num_orb_sc).
C24_VacanciesFilterTerms ==
    (/\ phase = "ready"
     /\ last.op = "get_hop"
     /\ vacancy_list # << >>
     /\ hop_modifier = << >>) =>
        /\ last.ret = LiveTerms(get_hop(WithoutVacancies, "False").ret)
        /\ \A k \in 1..Len(last.ret.hop_i) :
              /\ last.ret.hop_i[k] \in 0..(num_orb_sc(Self) - 1)
              /\ last.ret.hop_j[k] \in 0..(num_orb_sc(Self) - 1)

\* get_hop() on the periodic chain of four orbitals whose orbital 1 is a
\* vacancy: the terms 2 -> 3 and 3 -> 0 are left, as (1, 2) and (2, 0)
C24_Witness ==
    /\ phase = "ready"
    /\ last.op = "get_hop"
    /\ dim = << 4, 1, 1 >>
    /\ pbc = << 1, 0, 0 >>
    /\ vacancy_list = << << 1, 0, 0, 0 >> >>
    /\ hop_modifier = << >>
    /\ last.ret.hop_i = << 1, 2 >>
    /\ last.ret.hop_j = << 2, 0 >>

(***************************************************************************)
(* SpecOrder: vacancies handed over one by one and in lists, in any order  *)
(* and with repetitions, on the ladder of two cells (with positions).      *)
(***************************************************************************)
\* constructed without vacancies or with two of them in decreasing order
ConstructOrder ==
    Construct({<< 2, 1, 1 >>}, {<< TRUE, FALSE, FALSE >>},
              {<< >>, << << 1, 0, 0, 1 >>, << 0, 0, 0, 1 >> >>})

\* lists for add_vacancies: empty, the first index once and twice, the
\* first and the last index in both orders, and one that is rejected at
\* its second element
OrderLists ==
    LET lo == << 0, 0, 0, 0 >>
        hi == << dim[1] - 1, dim[2] - 1, dim[3] - 1, prim_cell.num_orb - 1 >>
    IN  {<< >>, << lo >>, << lo, lo >>, << hi, lo >>, << lo, hi >>,
         << lo, << 0, 0, 0 >> >>}

\* add_vacancies(vacancies, sync_array)
AddVacanciesOrder ==
    /\ phase = "ready"
    /\ \E vs \in OrderLists, do_sync \in BOOLEAN :
          \E r \in {add_vacancies(Self, vs, do_sync)} :
              /\ Len(r.self.vacancy_list) <= MaxVac
              /\ Becomes(r.self)
              /\ last' = Call("add_vacancies",
                              [vacancies |-> vs, sync_array |-> do_sync],
                              r.err, << >>)
    /\ UNCHANGED phase

NextOrder ==
    \/ ConstructOrder
    \/ AddVacancy
    \/ AddVacanciesOrder
    \/ SetVacanciesSet
    \/ SyncArray

SpecOrder == InitRead /\ [][NextOrder]_vars

\* the arrays of s are sorted by supercell index and row k of vac_id_pc is
\* the primitive-cell index of the flat index vac_id_sc[k]
SortedPairs(s) ==
    /\ Len(s.vac_id_pc) = Len(s.vac_id_sc)
    /\ \A k \in 1..(Len(s.vac_id_sc) - 1) : s.vac_id_sc[k] < s.vac_id_sc[k + 1]
    /\ \A k \in 1..Len(s.vac_id_sc) :
          /\ _id_pc2sc(s.dim, s.prim_cell.num_orb, s.vac_id_pc[k]) = s.vac_id_sc[k]
          /\ _id_sc2pc(s.dim, s.prim_cell.num_orb, s.vac_id_sc[k]) = s.vac_id_pc[k]

\* C25: after every synchronization with a non-empty vacancy set,
\* vac_id_sc is strictly increasing and vac_id_pc[k] is the primitive-cell
\* index whose flat index is vac_id_sc[k], and the arrays hold exactly the
\* current vacancies, whatever the order and the repetitions in which they
\* were handed to add_vacancy, add_vacancies and set_vacancies.  The
\* arrays left by an earlier synchronization are ordered in the same way.
C25_VacancyArraysSorted ==
    (phase = "ready") =>
        /\ SortedPairs(Self)
        /\ \E s \in {sync_array(Self, FALSE)} :
              vacancy_list # << >> =>
                 /\ SortedPairs(s)
                 /\ Len(s.vac_id_pc) = Len(vacancy_list)
                 /\ Elements(s.vac_id_pc) = Elements(vacancy_list)

\* the last orbital was made a vacancy before the first one: the arrays
\* hold them in increasing order
C25_Witness ==
    /\ phase = "ready"
    /\ last.op \in {"add_vacancy", "add_vacancies", "set_vacancies"}
    /\ vacancy_list = << << 1, 0, 0, 1 >>, << 0, 0, 0, 0 >> >>
    /\ vac_id_sc = << 0, 3 >>
    /\ vac_id_pc = << << 0, 0, 0, 0 >>, << 1, 0, 0, 1 >> >>

(***************************************************************************)
(* SpecDr: get_dr() and get_hop() on the ladder with vacancies and added   *)
(* hopping terms.                                                          *)
(***************************************************************************)
\* orbital pairs handed to add_hopping: a stored term, its conjugate, and
\* two pairs that are not stored
DrPairs == {<< 0, 1 >>, << 1, 0 >>, << 0, 3 >>, << 1, 2 >>}

AddHoppingDr == AddHopping({<< 0, 0, 0 >>, << 1, 0, 0 >>}, DrPairs, {<< 2, 0 >>})

GetDrDr == GetDr({"auto", "False"})

NextDr ==
    \/ ConstructRead
    \/ AddVacancy
    \/ AddHoppingDr
    \/ GetDrDr

SpecDr == InitRead /\ [][NextDr]_vars

\* the distance get_dr() computes for the modifier entry m
EntryDr(m, orb_pos) ==
    VecSub(VecAdd(orb_pos[m.ket + 1], VecMat(m.rn, sc_lat_vec(Current))),
           orb_pos[m.bra + 1])

\* what the lookup of the merge finds for the modifier entry m among the
\* stored terms: << id_same, id_conj >>
Lookup(raw, m) == find_equiv_hopping(raw.hop_i, raw.hop_j, m.bra, m.ket)

\* row k of dr belongs to term k of get_hop(): a row of a stored term that
\* no entry overwrites is the distance of that term; the row of a slot that
\* entries overwrite is the distance of the last of them, negated if it
\* overwrites as the conjugate; the row of the m-th appended term is the
\* distance of the m-th entry that overwrites nothing
RowsBelong(dr, use_fast) ==
    \E raw \in {RawHop(use_fast)}, orb_pos \in {get_orb_pos(Current).ret} :
    \E raw_dr \in {IF IsFast(use_fast) THEN _init_hop_fast_dr(Current, orb_pos)
                   ELSE _init_hop_dr(Current, orb_pos)} :
        LET n_raw == Len(raw.hop_i)
            is_new(m) == Lookup(raw, m) = << -1, -1 >>
            new == SelectSeq(hop_modifier, is_new)
            slot(m) == IF Lookup(raw, m)[1] # -1 THEN Lookup(raw, m)[1] + 1
                       ELSE Lookup(raw, m)[2] + 1
            writers(k) ==
                {n \in 1..Len(hop_modifier) :
                    ~is_new(hop_modifier[n]) /\ slot(hop_modifier[n]) = k}
            written(k) ==
                LET m == hop_modifier[MaxOfSet(writers(k))]
                IN  IF Lookup(raw, m)[1] # -1 THEN EntryDr(m, orb_pos)
                    ELSE VecNeg(EntryDr(m, orb_pos))
        IN  /\ Len(dr) = n_raw + Len(new)
            /\ \A k \in 1..n_raw :
                  dr[k] = IF writers(k) = {} THEN raw_dr[k] ELSE written(k)
            /\ \A m \in 1..Len(new) : dr[n_raw + m] = EntryDr(new[m], orb_pos)

\* C26 as stated: in every state, whatever the vacancies and the modifier,
\* get_dr() returns one row per term of get_hop() with the same use_fast,
\* and row k belongs to term k.
C26_DrRowsFollowTerms ==
    (phase = "ready" /\ last.op = "get_dr") =>
        /\ last.err = NoErr
        /\ Len(last.ret) = Len(get_hop(Self, last.arg).ret.hop_i)
        /\ RowsBelong(last.ret, last.arg)

(***************************************************************************)
(* The modifier after vacancy changes (SpecTrim).                          *)
(***************************************************************************)
\* C27 as stated: after any sequence of add_hopping, add_vacancy and trim on
\* an unlocked supercell, every modifier entry has its bra and ket inside
\* [0, num_orb_sc), and so has every term get_hop() returns.
C27_ModifierInRange ==
    (phase = "ready" /\ ~is_locked) =>
        /\ \A n \in 1..Len(hop_modifier) :
              /\ hop_modifier[n].bra \in 0..(num_orb_sc(Self) - 1)
              /\ hop_modifier[n].ket \in 0..(num_orb_sc(Self) - 1)
        /\ last.op = "get_hop" =>
              \A k \in 1..Len(last.ret.hop_i) :
                  /\ last.ret.hop_i[k] \in 0..(num_orb_sc(Self) - 1)
                  /\ last.ret.hop_j[k] \in 0..(num_orb_sc(Self) - 1)

(***************************************************************************)
(* SpecCtor: constructions that fail and constructions that succeed.       *)
(***************************************************************************)
\* dimensions: accepted, of one component, and too small along a
CtorDims(n) == TrimDims(n) \cup {<< 3 >>, << 0, 1, 1 >>}

\* boundary conditions: accepted and of one component
CtorPbcs == {<< TRUE, FALSE, FALSE >>, << FALSE, FALSE, FALSE >>, << TRUE >>}

\* vacancies: none, one, one of three components, one out of range
CtorVacs ==
    {<< >>, << << 1, 0, 0, 0 >> >>, << << 1, 0, 0 >> >>, << << 0, 1, 0, 0 >> >>}

ConstructCtor == Construct(CtorDims(prim_cell.num_orb), CtorPbcs, CtorVacs)

NextCtor ==
    \/ ConstructCtor
    \/ AddVacancy
    \/ GetHopDet

SpecCtor == InitTrim /\ [][NextCtor]_vars

\* C28 as stated: a construction that fails (dimension length, dimension
\* size, periodicity length or vacancy error) leaves the primitive cell as
\* it was before, in particular not locked.
C28_FailedConstructionKeepsCell ==
    [][(last'.op = "init" /\ last'.err # NoErr) => prim_cell' = prim_cell]_vars

(***************************************************************************)
(* The derived state as a function of the vacancy set (SpecOrder).         *)
(***************************************************************************)
\* the current vacancies in the order of their flat index
CanonList ==
    LET S == Elements(vacancy_list)
        flat(v) == _id_pc2sc(dim, prim_cell.num_orb, v)
    IN  [k \in 1..Cardinality(S) |->
            CHOOSE v \in S : Cardinality({w \in S : flat(w) < flat(v)}) = k - 1]

\* the object that the set of the current vacancies determines: the
\* vacancies and the live orbitals in the order of their flat index
Canonical ==
    LET total == prim_cell.num_orb * dim[1] * dim[2] * dim[3]
        all == [k \in 1..total |-> _id_sc2pc(dim, prim_cell.num_orb, k - 1)]
        live(p) == p \notin Elements(vacancy_list)
    IN  [Self EXCEPT
            !.vacancy_list = CanonList,
            !.hash_dict = CanonList,
            !.vac_id_pc = CanonList,
            !.vac_id_sc = [k \in 1..Len(CanonList) |->
                              _id_pc2sc(dim, prim_cell.num_orb, CanonList[k])],
            !.orb_id_pc = SelectSeq(all, live)]

\* s and c have the same vac_id_pc, vac_id_sc and orb_id_pc
SameArrays(s, c) ==
    /\ s.vac_id_pc = c.vac_id_pc
    /\ s.vac_id_sc = c.vac_id_sc
    /\ s.orb_id_pc = c.orb_id_pc

\* every accessor returns on s what it returns on c
SameReads(s, c) ==
    /\ \A m \in {"auto", "False"} :
          /\ get_hop(s, m).ret = get_hop(c, m).ret
          /\ get_dr(s, m).ret = get_dr(c, m).ret
    /\ get_orb_eng(s).ret = get_orb_eng(c).ret
    /\ get_orb_pos(s).ret = get_orb_pos(c).ret
    /\ \A id_pc \in ValidIds :
          /\ orb_id_pc2sc(s, id_pc).ret = orb_id_pc2sc(c, id_pc).ret
          /\ orb_id_pc2sc(s, id_pc).err = orb_id_pc2sc(c, id_pc).err
    /\ \A id_sc \in 0..(num_orb_sc(c) - 1) :
          orb_id_sc2pc(s, id_sc).ret = orb_id_sc2pc(c, id_sc).ret

\* num_orb_sc as the set of vacancies determines it
CanonCount ==
    prim_cell.num_orb * dim[1] * dim[2] * dim[3]
        - Cardinality(Elements(vacancy_list))

\* C29 as stated: the same vacancies, in whatever order, batches and
\* repetitions they were added, yield the same num_orb_sc, vac_id_pc,
\* vac_id_sc and orb_id_pc and the same results of every accessor.
C29_SetDeterminesState ==
    (phase = "ready") =>
        \E c \in {Canonical} :
            /\ num_orb_sc(Self) = CanonCount
            /\ SameArrays(Self, c)
            /\ SameReads(Self, c)

\* the object is determined by its set of vacancies once it is
\* synchronized
SetDetermined ==
    \E c \in {Canonical} :
        /\ num_orb_sc(Self) = CanonCount
        /\ SameArrays(sync_array(Self, FALSE), c)
        /\ SameReads(Self, c)

\* C29 (amended): the same vacancies, in whatever order, batches and
\* repetitions they were added, yield the same num_orb_sc and the same
\* results of every accessor at once, and the same vac_id_pc, vac_id_sc and
\* orb_id_pc after the next synchronization (at once if they were added
\* with sync_array=True); adding vacancies that are all present already
\* leaves the vacancy list, and with it all of these, as they were.
C29_SetDeterminesSynced ==
    (phase = "ready") =>
        /\ SetDetermined
        /\ ~is_locked =>
              \A v \in Elements(vacancy_list), do_sync \in BOOLEAN :
                  \E r \in {add_vacancies(Self, << v, v >>, do_sync)} :
                      /\ r.err = NoErr
                      /\ r.self.vacancy_list = vacancy_list
                      /\ SameArrays(sync_array(r.self, FALSE),
                                    sync_array(Self, FALSE))

\* the first orbital was handed over twice in one list after the last
\* orbital had been made a vacancy; the arrays hold the two in increasing
\* order
C29_Witness ==
    /\ phase = "ready"
    /\ last.op = "add_vacancies"
    /\ last.arg.vacancies = << << 0, 0, 0, 0 >>, << 0, 0, 0, 0 >> >>
    /\ last.arg.sync_array
    /\ last.err = NoErr
    /\ vacancy_list = << << 1, 0, 0, 1 >>, << 0, 0, 0, 0 >> >>
    /\ vac_id_sc = << 0, 3 >>

=============================================================================
